---------------------------- MODULE Spec2Model ----------------------------
(***************************************************************************)
(* Model of the start-time scheduler of holper: holper/affine_seq.py       *)
(* (AffineSeq), holper/tools.py (disjoin) and holper/start.py              *)
(* (StartConstraints, generate_slots_greedily, generate_slots_optimal,     *)
(* fill_slots).                                                            *)
(*                                                                         *)
(* Python's None is modelled by the empty tuple <<>> and a present value v *)
(* by the one-element tuple <<v>>.  Python lists are sequences; a 0-based  *)
(* Python index i is position i + 1 of the sequence.                       *)
(***************************************************************************)
EXTENDS Integers, Sequences, FiniteSets, TLC

VARIABLES
    pc,          \* position of the modelled program
    seq_a,       \* AffineSeq operand `self`
    seq_b,       \* AffineSeq operand `other`
    seq_r,       \* result of an AffineSeq operation (None before it ran)
    lst,         \* the list handed to disjoin (elements are ids)
    lst_key,     \* key of every element id of lst
    lst_in,      \* lst as it was before disjoin
    interval,    \* StartConstraints.interval
    parallel_max,\* StartConstraints.parallel_max (None or a number)
    conflicts,   \* StartConstraints.conflicts: a set of groups (sets of course ids)
    order,       \* StartConstraints.order: dict, a sequence of <<course id, category ids>>
    cat,         \* the categories of the race: course, starts, vacancies
    time_max,    \* generate_slots_greedily's time_max argument
    todo,        \* greedy: the sorted (course id, count) items not yet handled
    slots,       \* greedy: course id -> AffineSeq
    parallel,    \* greedy: slot -> number of courses starting there
    greedy_status, \* "" while running, "returned" or the exception raised
    opt_last_start, \* optimal: the last start found by step 1 (None before)
    opt_slots,   \* optimal: course id -> AffineSeq
    opt_status,  \* "" while running, "returned" or the exception raised
    race,        \* race.categories and race.courses: lists of ids
    category_time_offset, \* Category.time_offset in minutes (None when unset)
    start_time_offset,    \* Start.time_offset in minutes, by category and start
    start_slots, \* fill_slots: the slot sequences it was given
    fill_course, \* fill_slots: index of the course in race.courses
    fill_cat,    \* _fill_course_slots: index of the category (0: not yet called)
    fill_pos,    \* _fill_course_slots: number of slots taken from the iterator
    fill_status, \* "" while running, "returned" or the exception raised
    arg_pattern, \* AffineSeq(...): the str given as `start` (None when an int is given)
    arg_start,   \* AffineSeq(...): the int given as `start`
    arg_stop,    \* AffineSeq(...): `stop`
    arg_step,    \* AffineSeq(...): `step`
    seq_len,     \* len(seq) (None before it ran)
    seq_items,   \* list(seq)
    seq_reversed,\* list(reversed(seq))
    stats,       \* the attributes of the Statistics instance (None before it is built)
    got_categories, \* what the last get_categories returned (None before)
    calls,       \* the number of set_category_early, set_category_late, get_categories calls
    stats_status \* "" before Statistics(race), "returned" or the exception raised

ctor_vars == <<arg_pattern, arg_start, arg_stop, arg_step>>
iter_vars == <<seq_len, seq_items, seq_reversed>>
affine_vars == <<seq_a, seq_b, seq_r, ctor_vars, iter_vars>>
disjoin_vars == <<lst, lst_key, lst_in>>
constraint_vars == <<interval, parallel_max, conflicts, order>>
race_vars == <<cat, race>>
offset_vars == <<category_time_offset, start_time_offset>>
fill_vars == <<start_slots, fill_course, fill_cat, fill_pos, fill_status>>
greedy_vars == <<time_max, todo, slots, parallel, greedy_status>>
optimal_vars == <<opt_last_start, opt_slots, opt_status>>

stats_vars == <<stats, stats_status>>
call_vars == <<got_categories, calls>>

vars == <<pc, affine_vars, disjoin_vars, constraint_vars, race_vars, greedy_vars,
          optimal_vars, offset_vars, fill_vars, stats_vars, call_vars>>

(***************************************************************************)
(* Bounds of the model                                                     *)
(***************************************************************************)
AffMaxStart == 2
AffMaxStop == 5
AffMaxStep == 3
MaxLen == 5
MaxKeys == 3
NumCourses == 4
MaxCount == 3
MaxGroups == 2
OptNumCourses == 2
OptMaxCount == 3
MaxInterval == 2
MaxParallel == 2
SmallTimeMax == 2
FillNumCourses == 2
FillNumCategories == 2
MaxStarts == 2
MaxVacancies == 1
MaxOrganisations == 1
MaxPatternLen == 5
MixedMaxStarts == 3
OrderCategories == 2
OrderCourses == 3
OrderMaxList == 2
MaxCalls == 2
AssignMaxStarts == 3
AssignOrganisations == 2
SortCategories == 3
SortCourses == 2
SortMaxStarts == 2
StatsCategories == 2
StatsMaxStarts == 3
StatsMaxOffset == 2
ScenarioCourses == 2
ScenarioMaxCount == 5
ScenarioMaxInterval == 3
\* the default of generate_slots_greedily's time_max: 12 * 60
DefaultTimeMax == 720

None == <<>>
Some(v) == <<v>>
Val(o) == o[1]

Max(S) == CHOOSE x \in S : \A y \in S : y <= x
Min(S) == CHOOSE x \in S : \A y \in S : x <= y

(***************************************************************************)
(* holper/affine_seq.py                                                    *)
(***************************************************************************)
RECURSIVE gcd(_, _)
gcd(a, b) == IF b = 0 THEN (IF a < 0 THEN 0 - a ELSE a) ELSE gcd(b, a % b)

abs(x) == IF x < 0 THEN 0 - x ELSE x

lcm(int1, int2) ==
    IF int1 = 0 \/ int2 = 0 THEN 0
    ELSE abs(int1 * int2) \div gcd(int1, int2)

\* AffineSeq.__init__ with an integer start: the instance, or the ValueError raised
ValueError == [error |-> "ValueError"]
IsAffineSeq(x) == "start" \in DOMAIN x

AffineSeq(start, stop, step) ==
    IF step < 1 THEN ValueError
    ELSE [start |-> start, stop |-> stop, step |-> step]

\* the length with the division rounded down
AffineSeq_len_floor(self) ==
    IF self.stop <= self.start THEN 0
    ELSE (self.stop - self.start) \div self.step

\* len(range(start, stop, step)) for step >= 1
AffineSeq_len(self) ==
    IF self.stop <= self.start THEN 0
    ELSE (self.stop - self.start + self.step - 1) \div self.step

AffineSeq_getitem(self, key) == self.start + self.step * key

\* the items in iteration order
to_range(self) == [k \in 1..AffineSeq_len(self) |-> AffineSeq_getitem(self, k - 1)]

AffineSeq_contains(self, item) ==
    /\ self.start <= item
    /\ item < self.stop
    /\ (item - self.start) % self.step = 0

\* reversed(range(start, stop, step)): from the last item down, len items
AffineSeq_reversed(self) ==
    LET n == AffineSeq_len(self)
    IN  [k \in 1..n |-> (self.start + (n - 1) * self.step) - (k - 1) * self.step]

\* the characters of the patterns: three digits and three other characters
Digits == {"0", "5", "7"}
Alphabet == Digits \cup {"n", "+", "x"}
digit_value(c) == IF c = "0" THEN 0 ELSE IF c = "5" THEN 5 ELSE 7

\* the length of the run of [0-9] that starts at position i of s
RECURSIVE digits_run(_, _)
digits_run(s, i) ==
    IF i <= Len(s) /\ s[i] \in Digits THEN 1 + digits_run(s, i + 1) ELSE 0

\* affine_sequence_re.match(s): None, or the groups of the match, which starts at
\* the first character and ends where the pattern ends
affine_sequence_re_match(s) ==
    LET run == digits_run(s, 1)
        plus == run + 2
    IN  IF run + 1 > Len(s) \/ s[run + 1] # "n" THEN None
        ELSE Some([interval |-> SubSeq(s, 1, run),
                   offset |-> IF /\ plus <= Len(s)
                                 /\ s[plus] = "+"
                                 /\ digits_run(s, plus + 1) >= 1
                              THEN Some(SubSeq(s, plus + 1, plus + digits_run(s, plus + 1)))
                              ELSE None])

\* int(s) of a run of digits
RECURSIVE int(_)
int(s) == IF s = <<>> THEN 0 ELSE 10 * int(SubSeq(s, 1, Len(s) - 1)) + digit_value(s[Len(s)])

\* AffineSeq.__init__ with a str as start: `step` is not looked at
AffineSeq_from_str(pattern, stop) ==
    LET match == affine_sequence_re_match(pattern)
    IN  IF match = None THEN ValueError
        ELSE AffineSeq(IF Val(match).offset = None THEN 0 ELSE int(Val(Val(match).offset)),
                       stop,
                       IF Val(match).interval = <<>> THEN 1 ELSE int(Val(match).interval))

\* AffineSeq_and that takes the larger start without looking for a common term
AffineSeq_and_unanchored(self, other) ==
    LET start0 == IF self.start >= other.start THEN self.start ELSE other.start
        stop0  == IF self.stop <= other.stop THEN self.stop ELSE other.stop
        step   == lcm(self.step, other.step)
    IN  IF (self.start - other.start) % gcd(self.step, other.step) # 0
        THEN AffineSeq(start0, start0, step)
        ELSE AffineSeq(start0, stop0, step)

AffineSeq_and(self, other) ==
    LET start0 == IF self.start >= other.start THEN self.start ELSE other.start
        stop0  == IF self.stop <= other.stop THEN self.stop ELSE other.stop
        step   == lcm(self.step, other.step)
        items  == to_range(self)
        hits   == {k \in 1..Len(items) : AffineSeq_contains(other, items[k])}
    IN  IF (self.start - other.start) % gcd(self.step, other.step) # 0
        THEN AffineSeq(start0, start0, step)
        ELSE IF hits # {}
             THEN AffineSeq(items[Min(hits)], stop0, step)
             ELSE AffineSeq(start0, start0, step)

\* the set of terms an AffineSeq yields when iterated
Terms(self) == {to_range(self)[k] : k \in 1..AffineSeq_len(self)}

(***************************************************************************)
(* holper/tools.py                                                         *)
(***************************************************************************)
\* list.pop(i) leaves this list
list_without(l, i) == [k \in 1..(Len(l) - 1) |-> IF k <= i THEN l[k] ELSE l[k + 1]]

\* list.insert(i, x) for 0 <= i <= len(l)
list_insert(l, i, x) ==
    [k \in 1..(Len(l) + 1) |-> IF k <= i THEN l[k] ELSE IF k = i + 1 THEN x ELSE l[k - 1]]

list_reverse(l) == [k \in 1..Len(l) |-> l[Len(l) + 1 - k]]

\* the element inserted without being taken out
disjoin_move_copy(l, idx, idx2) == list_insert(l, idx, l[idx2 + 1])

\* lst.insert(idx, lst.pop(idx2))
disjoin_move(l, idx, idx2) == list_insert(list_without(l, idx2), idx, l[idx2 + 1])

\* for idx in reversed(range(len(lst) - 1)), from idx downwards
RECURSIVE disjoin_sweep(_, _, _)
disjoin_sweep(l, key, idx) ==
    IF idx < 0 THEN l
    ELSE IF key[l[idx + 1]] = key[l[idx + 2]]
         THEN LET cands == {idx2 \in 0..(idx - 1) : key[l[idx + 1]] # key[l[idx2 + 1]]}
              IN  IF cands = {} THEN disjoin_sweep(l, key, idx - 1)
                  ELSE disjoin_sweep(disjoin_move(l, idx, Max(cands)), key, idx - 1)
         ELSE disjoin_sweep(l, key, idx - 1)

disjoin_round(l, key) == list_reverse(disjoin_sweep(l, key, Len(l) - 2))

\* disjoin with one sweep instead of two
disjoin_one_sweep(l, key) ==
    IF Len(l) <= 2 THEN l
    ELSE disjoin_round(l, key)

disjoin(l, key) ==
    IF Len(l) <= 2 THEN l
    ELSE disjoin_round(disjoin_round(l, key), key)

(***************************************************************************)
(* holper/start.py: StartConstraints                                       *)
(***************************************************************************)
\* a Python dict is the sequence of its (key, value) pairs in insertion order
dict_has(d, k) == \E i \in 1..Len(d) : d[i][1] = k
dict_get(d, k) == d[CHOOSE i \in 1..Len(d) : d[i][1] = k][2]

RECURSIVE sum(_)
sum(s) == IF s = <<>> THEN 0 ELSE Head(s) + sum(Tail(s))

\* the (course id, count) items of StartConstraints.course_slot_counts
course_slot_counts ==
    [i \in 1..Len(order) |->
        LET categories == order[i][2]
        IN  <<order[i][1],
              Len(categories) - 1
                + sum([k \in 1..Len(categories) |->
                         Len(cat[categories[k]].starts)
                           + cat[categories[k]].vacancies_before
                           + cat[categories[k]].vacancies_after])>>]

\* Counter(request.type ...)[type] of _category_request_counts
category_request_count(k, type) ==
    sum([i \in 1..Len(cat[k].starts) |->
            Cardinality({r \in 1..Len(cat[k].starts[i].requests) :
                            cat[k].starts[i].requests[r] = type})])

EARLY == "EARLY_START"
LATE == "LATE_START"

\* category_order_key with the count of EARLY_START not negated
category_order_key_early_last(k) ==
    <<category_request_count(k, LATE) - category_request_count(k, EARLY),
      category_request_count(k, EARLY),
      category_request_count(k, LATE)>>

category_order_key(k) ==
    <<category_request_count(k, LATE) - category_request_count(k, EARLY),
      0 - category_request_count(k, EARLY),
      category_request_count(k, LATE)>>

\* Python's order of tuples of three numbers
tuple_less(a, b) ==
    \/ a[1] < b[1]
    \/ a[1] = b[1] /\ a[2] < b[2]
    \/ a[1] = b[1] /\ a[2] = b[2] /\ a[3] < b[3]

\* categories.sort(key=_category_order_key): stable
sort_categories(categories) ==
    LET key(i) == category_order_key(categories[i])
        rank(i) == 1 + Cardinality({j \in 1..Len(categories) :
                          \/ tuple_less(key(j), key(i))
                          \/ key(j) = key(i) /\ j < i})
    IN  [p \in 1..Len(categories) |->
            categories[CHOOSE i \in 1..Len(categories) : rank(i) = p]]

\* self.order[course_id].append(category) on the defaultdict(list)
order_append(d, course_id, k) ==
    IF dict_has(d, course_id)
    THEN [i \in 1..Len(d) |->
            IF d[i][1] = course_id THEN <<course_id, Append(d[i][2], k)>> ELSE d[i]]
    ELSE Append(d, <<course_id, <<k>>>>)

\* the first loop of add_race_courses over the categories from position i on
RECURSIVE order_append_all(_, _, _)
order_append_all(d, categories, i) ==
    IF i > Len(categories) THEN d
    ELSE order_append_all(order_append(d, cat[categories[i]].course, categories[i]),
                          categories, i + 1)

add_race_courses ==
    /\ pc = "constraints"
    /\ order' = LET appended == order_append_all(order, race.categories, 1)
                IN  [i \in 1..Len(appended) |->
                        <<appended[i][1], sort_categories(appended[i][2])>>]
    /\ pc' = "allocate"
    /\ UNCHANGED <<affine_vars, disjoin_vars, interval, parallel_max, conflicts, race_vars,
                   greedy_vars, optimal_vars, offset_vars, fill_vars, stats_vars, call_vars>>

\* the elements of a list from position i on that are in a set, in the list's order
RECURSIVE list_filter(_, _, _)
list_filter(l, S, i) ==
    IF i > Len(l) THEN <<>>
    ELSE IF l[i] \in S THEN <<l[i]>> \o list_filter(l, S, i + 1)
    ELSE list_filter(l, S, i + 1)

\* constraints.order[course.course_id] on the defaultdict(list): a missing key is added
order_touch(d, course_id) ==
    IF dict_has(d, course_id) THEN d ELSE Append(d, <<course_id, <<>>>>)

\* self.order[course_id] = value
dict_set(d, course_id, value) ==
    [i \in 1..Len(d) |-> IF d[i][1] = course_id THEN <<course_id, value>> ELSE d[i]]

\* the members of a list
members(l) == {l[i] : i \in 1..Len(l)}

\* list(filter(lambda category: category not in categories, self.order[course_id]))
order_without(d, course_id, categories) ==
    LET previous == IF dict_has(d, course_id) THEN dict_get(d, course_id) ELSE <<>>
    IN  list_filter(previous, members(previous) \ members(categories), 1)

\* set_category_early that appends the categories
set_category_early_appending(course_id, categories) ==
    /\ pc \in {"constraints", "allocate"}
    /\ calls < MaxCalls
    /\ calls' = calls + 1
    /\ order' = dict_set(order_touch(order, course_id), course_id,
                         order_without(order, course_id, categories) \o categories)
    /\ UNCHANGED <<pc, affine_vars, disjoin_vars, interval, parallel_max, conflicts,
                   race_vars, greedy_vars, optimal_vars, offset_vars, fill_vars,
                   stats_vars, got_categories>>

\* reading self.order[course_id] adds a missing key before the assignment replaces
\* its value
set_category_early(course_id, categories) ==
    /\ pc \in {"constraints", "allocate"}
    /\ calls < MaxCalls
    /\ calls' = calls + 1
    /\ order' = dict_set(order_touch(order, course_id), course_id,
                         categories \o order_without(order, course_id, categories))
    /\ UNCHANGED <<pc, affine_vars, disjoin_vars, interval, parallel_max, conflicts,
                   race_vars, greedy_vars, optimal_vars, offset_vars, fill_vars,
                   stats_vars, got_categories>>

set_category_late(course_id, categories) ==
    /\ pc \in {"constraints", "allocate"}
    /\ calls < MaxCalls
    /\ calls' = calls + 1
    /\ order' = dict_set(order_touch(order, course_id), course_id,
                         order_without(order, course_id, categories) \o categories)
    /\ UNCHANGED <<pc, affine_vars, disjoin_vars, interval, parallel_max, conflicts,
                   race_vars, greedy_vars, optimal_vars, offset_vars, fill_vars,
                   stats_vars, got_categories>>

\* self.order is a defaultdict(list): the subscription never raises KeyError, it adds
\* the missing key with an empty list and returns that list
get_categories(course_id) ==
    /\ pc \in {"constraints", "allocate"}
    /\ calls < MaxCalls
    /\ calls' = calls + 1
    /\ order' = order_touch(order, course_id)
    /\ got_categories' = Some(dict_get(order', course_id))
    /\ UNCHANGED <<pc, affine_vars, disjoin_vars, interval, parallel_max, conflicts,
                   race_vars, greedy_vars, optimal_vars, offset_vars, fill_vars,
                   stats_vars>>

(***************************************************************************)
(* holper/start.py: generate_slots_greedily                                *)
(***************************************************************************)
\* the items sorted by ascending count
sorted_by_count_asc(items) ==
    LET rank(i) == 1 + Cardinality({j \in 1..Len(items) :
                          \/ items[j][2] < items[i][2]
                          \/ items[j][2] = items[i][2] /\ j < i})
    IN  [p \in 1..Len(items) |-> items[CHOOSE i \in 1..Len(items) : rank(i) = p]]

\* sorted(items, key=operator.itemgetter(1), reverse=True): stable
sorted_by_count_desc(items) ==
    LET rank(i) == 1 + Cardinality({j \in 1..Len(items) :
                          \/ items[j][2] > items[i][2]
                          \/ items[j][2] = items[i][2] /\ j < i})
    IN  [p \in 1..Len(items) |-> items[CHOOSE i \in 1..Len(items) : rank(i) = p]]

\* parallel is a defaultdict(int)
parallel_at(slot) == IF slot \in DOMAIN parallel THEN parallel[slot] ELSE 0

\* parallel_full with > for >=
parallel_full_off_by_one(first_slot) ==
    /\ parallel_max # None
    /\ Val(parallel_max) # 0
    /\ parallel_at(first_slot) > Val(parallel_max)

\* `constraints.parallel_max and parallel[first_slot] >= constraints.parallel_max`
parallel_full(first_slot) ==
    /\ parallel_max # None
    /\ Val(parallel_max) # 0
    /\ parallel_at(first_slot) >= Val(parallel_max)

has_conflict(course_id, first_slot) ==
    \E course_group \in conflicts :
        /\ course_id \in course_group
        /\ \E other_course_id \in course_group :
              /\ other_course_id \in DOMAIN slots
              /\ AffineSeq_contains(slots[other_course_id], first_slot)

slot_is_free(course_id, first_slot) ==
    /\ ~parallel_full(first_slot)
    /\ ~has_conflict(course_id, first_slot)

\* first_free_slot over range(time_max + 1)
RECURSIVE first_free_slot_inclusive(_, _)
first_free_slot_inclusive(course_id, first_slot) ==
    IF first_slot > time_max THEN None
    ELSE IF slot_is_free(course_id, first_slot) THEN Some(first_slot)
         ELSE first_free_slot_inclusive(course_id, first_slot + 1)

\* `for first_slot in range(time_max)`: the first free slot from `first_slot` on, or None
RECURSIVE first_free_slot(_, _)
first_free_slot(course_id, first_slot) ==
    IF first_slot >= time_max THEN None
    ELSE IF slot_is_free(course_id, first_slot) THEN Some(first_slot)
         ELSE first_free_slot(course_id, first_slot + 1)

\* the sequence of a course with the stop one minute after each of its count slots
course_slots_unscaled(first_slot, count) ==
    AffineSeq(first_slot, first_slot + count, interval)

\* AffineSeq(first_slot, first_slot + constraints.interval * count, constraints.interval)
course_slots(first_slot, count) ==
    AffineSeq(first_slot, first_slot + interval * count, interval)

\* the call: empty slots and parallel, the courses sorted by descending count
generate_slots_greedily ==
    /\ pc = "allocate"
    /\ \E tm \in {SmallTimeMax, DefaultTimeMax} : time_max' = tm
    /\ todo' = sorted_by_count_desc(course_slot_counts)
    /\ slots' = <<>>
    /\ parallel' = <<>>
    /\ IF course_slot_counts = <<>>
       THEN pc' = "greedy_done" /\ greedy_status' = "returned"
       ELSE pc' = "greedily" /\ greedy_status' = ""
    /\ UNCHANGED <<affine_vars, disjoin_vars, constraint_vars, race_vars, optimal_vars,
                   offset_vars, fill_vars, stats_vars, call_vars>>

\* one pass of the loop over the courses that finds a slot; after the last one, return
greedy_course ==
    /\ pc = "greedily"
    /\ todo # <<>>
    /\ LET course_id == Head(todo)[1]
           count == Head(todo)[2]
           first_slot == first_free_slot(course_id, 0)
       IN  /\ first_slot # None
           /\ LET seq == course_slots(Val(first_slot), count)
              IN  /\ slots' = [c \in DOMAIN slots \cup {course_id} |->
                                  IF c = course_id THEN seq ELSE slots[c]]
                  /\ parallel' = [t \in DOMAIN parallel \cup Terms(seq) |->
                                  parallel_at(t) + IF t \in Terms(seq) THEN 1 ELSE 0]
    /\ todo' = Tail(todo)
    /\ IF Tail(todo) = <<>>
       THEN pc' = "greedy_done" /\ greedy_status' = "returned"
       ELSE pc' = "greedily" /\ greedy_status' = ""
    /\ UNCHANGED <<affine_vars, disjoin_vars, constraint_vars, race_vars, optimal_vars,
                   offset_vars, fill_vars, stats_vars, call_vars, time_max>>

\* the loop's else branch: raise KeyError("No free slots found")
greedy_no_free_slots ==
    /\ pc = "greedily"
    /\ todo # <<>>
    /\ first_free_slot(Head(todo)[1], 0) = None
    /\ pc' = "greedy_done"
    /\ greedy_status' = "KeyError"
    /\ UNCHANGED <<affine_vars, disjoin_vars, constraint_vars, race_vars, optimal_vars,
                   offset_vars, fill_vars, stats_vars, call_vars, time_max, todo, slots, parallel>>

(***************************************************************************)
(* holper/start.py: generate_slots_optimal.  The CP-SAT solver is modelled *)
(* by what it is asked for: Solve() answers INFEASIBLE when no assignment  *)
(* of the variables satisfies the constraints, and otherwise hands back a  *)
(* satisfying assignment (of least last_start in step 1, where no time     *)
(* limit is set).  A Solve() that ends without an assignment and without   *)
(* the answer INFEASIBLE (a time limit that runs out first, a model with a *)
(* variable of empty domain) passes the function's test of the status, and *)
(* the solver.Value() that follows has no assignment to read and fails:    *)
(* opt_status "SolverError".                                               *)
(***************************************************************************)
interval_min == interval
interval_max == 12
interval_common_factor == 1

course_ids == [i \in 1..Len(order) |-> course_slot_counts[i][1]]
course_starters == [i \in 1..Len(order) |-> course_slot_counts[i][2]]

\* time_max = sum(course_slot_counts) * interval_common_factor
horizon == sum(course_starters) * interval_common_factor

\* no_common_slots: the groups as sets of course indices
no_common_slots ==
    {{idx \in 1..Len(order) : course_ids[idx] \in course_group} : course_group \in conflicts}

\* the domain of intervals[idx]
interval_domain(starters) ==
    LET bound == IF starters > 1 THEN horizon \div (starters - 1) ELSE horizon
        upper == (IF interval_max <= bound THEN interval_max ELSE bound)
                    \div interval_common_factor
    IN  interval_min..upper

\* the domain of offsets[idx]
offset_domain(starters) == 0..(horizon - (starters - 1) * interval_min)

\* slot_variables[idx][starter] for the values <<interval, offset>> of a course
slot_value(io, starter) == io[2] + io[1] * interval_common_factor * starter

\* the values of (intervals[idx], offsets[idx]) that keep every slot variable in 0..time_max
course_options(starters) ==
    {io \in interval_domain(starters) \X offset_domain(starters) :
        \A starter \in 0..(starters - 1) : slot_value(io, starter) \in 0..horizon}

\* the values of slot_variables[idx] under the assignment sol
slot_values(sol, idx) == {slot_value(sol[idx], starter) : starter \in 0..(course_starters[idx] - 1)}

\* all_different applied to each course of a group by itself
all_different_per_course(sol) ==
    \A course_group \in no_common_slots :
        \A i \in course_group :
            i <= Len(sol) => Cardinality(slot_values(sol, i)) = course_starters[i]

\* AddAllDifferent over the slot variables of every group (the slot variables of one
\* course differ anyway: its interval is at least interval_min >= 1)
all_different(sol) ==
    \A course_group \in no_common_slots :
        \A i \in course_group, j \in course_group :
            (i < j /\ j <= Len(sol)) => slot_values(sol, i) \cap slot_values(sol, j) = {}

\* parallel[time] <= parallel_max for every time, if parallel_max is not None
within_parallel_max(sol) ==
    parallel_max # None =>
        \A time \in 0..horizon :
            Cardinality({idx \in 1..Len(sol) : time \in slot_values(sol, idx)})
                <= Val(parallel_max)

\* the assignments of the first k courses that satisfy the constraints
RECURSIVE assignments(_)
assignments(k) ==
    IF k = 0 THEN {<<>>}
    ELSE {sol \in {Append(p, io) : p \in assignments(k - 1),
                                   io \in course_options(course_starters[k])} :
             all_different(sol) /\ within_parallel_max(sol)}

\* last_start = max(vars[-1] for vars in slot_variables if vars)
last_start(sol) ==
    Max({slot_value(sol[idx], course_starters[idx] - 1) :
            idx \in {i \in 1..Len(sol) : course_starters[i] > 0}})

\* the satisfying assignments of the whole model; last_start is a variable in 0..time_max
solutions ==
    {sol \in assignments(Len(order)) :
        /\ \E idx \in 1..Len(sol) : course_starters[idx] > 0
        /\ last_start(sol) \in 0..horizon}

\* the objective of step 2
objective(sol) ==
    sum([idx \in 1..Len(sol) |-> (course_starters[idx] - 1) * sol[idx][1]])
        - sum([idx \in 1..Len(sol) |-> sol[idx][2]])

\* step 2 without the constraint last_start == time_max
solutions_step2_unpinned == solutions

\* the model of step 2: last_start == time_max is added
solutions_step2 == {sol \in solutions : last_start(sol) = Val(opt_last_start)}

\* the dict returned
optimal_result(sol) ==
    [course_id \in {course_ids[idx] : idx \in 1..Len(sol)} |->
        LET idx == CHOOSE i \in 1..Len(sol) : course_ids[i] = course_id
        IN  AffineSeq(sol[idx][2],
                      sol[idx][2] + sol[idx][1] * interval_common_factor * course_starters[idx],
                      sol[idx][1] * interval_common_factor)]

\* step 1: Minimize(last_start) without time limit, status is not INFEASIBLE
optimal_step1 ==
    /\ pc \in {"allocate", "greedy_done"}
    /\ opt_status = ""
    /\ opt_last_start = None
    /\ solutions # {}
    /\ opt_last_start' = Some(Min({last_start(sol) : sol \in solutions}))
    /\ pc' = "optimal"
    /\ UNCHANGED <<affine_vars, disjoin_vars, constraint_vars, race_vars, greedy_vars,
                   offset_vars, fill_vars, stats_vars, call_vars, opt_slots, opt_status>>

\* step 1 answers INFEASIBLE: raise InfeasibleError
optimal_infeasible ==
    /\ pc \in {"allocate", "greedy_done"}
    /\ opt_status = ""
    /\ opt_last_start = None
    /\ solutions = {}
    /\ opt_status' = "InfeasibleError"
    /\ pc' = "optimal_done"
    /\ UNCHANGED <<affine_vars, disjoin_vars, constraint_vars, race_vars, greedy_vars,
                   offset_vars, fill_vars, stats_vars, call_vars, opt_last_start, opt_slots>>

\* a NewIntVar whose lower bound is above its upper bound
model_invalid ==
    \E idx \in 1..Len(order) :
        \/ interval_domain(course_starters[idx]) = {}
        \/ offset_domain(course_starters[idx]) = {}

\* step 1 on a model with a variable of empty domain, when the solver does not answer
\* INFEASIBLE: solver.Value(last_start) fails
optimal_model_invalid ==
    /\ pc \in {"allocate", "greedy_done"}
    /\ opt_status = ""
    /\ opt_last_start = None
    /\ model_invalid
    /\ opt_status' = "SolverError"
    /\ pc' = "optimal_done"
    /\ UNCHANGED <<affine_vars, disjoin_vars, constraint_vars, race_vars, greedy_vars,
                   offset_vars, fill_vars, stats_vars, call_vars, opt_last_start, opt_slots>>

\* step 2 reaches max_time_in_seconds before the solver has found an assignment: the
\* status is UNKNOWN, not INFEASIBLE, and solver.Value(offsets[idx]) fails
optimal_step2_unknown ==
    /\ pc = "optimal"
    /\ opt_status' = "SolverError"
    /\ pc' = "optimal_done"
    /\ UNCHANGED <<affine_vars, disjoin_vars, constraint_vars, race_vars, greedy_vars,
                   offset_vars, fill_vars, stats_vars, call_vars, opt_last_start, opt_slots>>

\* step 2: Maximize the objective within the timeout; the solver hands back the best
\* assignment it found, which need not be a maximal one
optimal_step2 ==
    /\ pc = "optimal"
    /\ \E sol \in solutions_step2 :
          opt_slots' = optimal_result(sol)
    /\ opt_status' = "returned"
    /\ pc' = "optimal_done"
    /\ UNCHANGED <<affine_vars, disjoin_vars, constraint_vars, race_vars, greedy_vars,
                   offset_vars, fill_vars, stats_vars, call_vars, opt_last_start>>

(***************************************************************************)
(* holper/start.py: fill_slots, _fill_course_slots, _assign_entries_randomly *)
(***************************************************************************)
\* the first EARLY_START or LATE_START request decides: 1 early, 2 late, 0 otherwise
RECURSIVE request_pref(_, _)
request_pref(requests, r) ==
    IF r > Len(requests) THEN 0
    ELSE IF requests[r] = EARLY THEN 1
    ELSE IF requests[r] = LATE THEN 2
    ELSE request_pref(requests, r + 1)

\* starts_of with the two groups exchanged
starts_of_exchanged(k, competitive) ==
    list_filter([i \in 1..Len(cat[k].starts) |-> i],
                {i \in 1..Len(cat[k].starts) : cat[k].starts[i].competitive # competitive}, 1)

\* starts[competitive] of _fill_course_slots: the indices of the category's starts
starts_of(k, competitive) ==
    list_filter([i \in 1..Len(cat[k].starts) |-> i],
                {i \in 1..Len(cat[k].starts) : cat[k].starts[i].competitive = competitive}, 1)

\* preferences[pref] of _assign_entries_randomly
preferences(k, starts, pref) ==
    list_filter(starts,
                {i \in 1..Len(cat[k].starts) : request_pref(cat[k].starts[i].requests, 1) = pref},
                1)

\* every outcome of random.shuffle
shuffles(seq) ==
    {[i \in 1..Len(seq) |-> seq[f[i]]] :
        f \in {g \in [1..Len(seq) -> 1..Len(seq)] :
                  \A a \in 1..Len(seq), b \in 1..Len(seq) : a # b => g[a] # g[b]}}

\* the sequences _assign_entries_randomly can hand slots to, after disjoin
assign_sequences(k, starts) ==
    {disjoin(p1 \o p0 \o p2, [i \in 1..Len(cat[k].starts) |-> cat[k].starts[i].organisation]) :
        p1 \in shuffles(preferences(k, starts, 1)),
        p0 \in shuffles(preferences(k, starts, 0)),
        p2 \in shuffles(preferences(k, starts, 2))}

\* the slot itself as the offset of the start
start_offset_absolute(slot, category_offset) == slot

\* start.time_offset = timedelta(minutes=next(slot_iter)) - start.category.time_offset
start_offset(slot, category_offset) == slot - category_offset

min2(a, b) == IF a <= b THEN a ELSE b

\* start_slots.get(course.course_id, []) as the list its iterator yields
slots_of(course_id) ==
    IF course_id \in DOMAIN start_slots THEN to_range(start_slots[course_id]) ELSE <<>>

\* after_group without the slot left empty
after_group_no_gap(p, group_len, n) ==
    IF group_len = 0 THEN p ELSE min2(p + group_len, n)

\* the position of the iterator over n slots after a group of starts that began at
\* position p: nothing is taken for an empty group, otherwise a slot for each start and
\* one slot left empty, as far as the slots reach
after_group(p, group_len, n) ==
    IF group_len = 0 THEN p ELSE min2(p + group_len + 1, n)

\* One pass of the loop of _fill_course_slots for category k, the iterator having
\* yielded pos of the slots sl, with seq1 and seq2 the sequences of the competitive
\* and the other starts: the offsets given, the new position, whether next() raised.
fill_category_result(k, sl, pos, seq1, seq2) ==
    LET n == Len(sl)
        category_offset == sl[pos + 1]
        \* skip vacancies at the start
        p1 == pos + cat[k].vacancies_before
        raised0 == p1 > n
        \* competitive starts, then one slot left empty (exhaustion tolerated)
        given1 == IF raised0 THEN 0 ELSE min2(Len(seq1), n - p1)
        raised1 == raised0 \/ Len(seq1) > n - p1
        p2 == after_group(p1, Len(seq1), n)
        \* the other starts, then one slot left empty (exhaustion tolerated)
        given2 == IF raised1 THEN 0 ELSE min2(Len(seq2), n - p2)
        raised2 == raised1 \/ Len(seq2) > n - p2
        p3 == after_group(p2, Len(seq2), n)
        \* skip vacancies at the end
        raised3 == raised2 \/ p3 + cat[k].vacancies_after > n
    IN  [offsets |->
            [i \in 1..Len(cat[k].starts) |->
                IF \E j \in 1..given1 : seq1[j] = i
                THEN Some(start_offset(sl[p1 + (CHOOSE j \in 1..given1 : seq1[j] = i)],
                                       category_offset))
                ELSE IF \E j \in 1..given2 : seq2[j] = i
                THEN Some(start_offset(sl[p2 + (CHOOSE j \in 1..given2 : seq2[j] = i)],
                                       category_offset))
                ELSE start_time_offset[k][i]],
         pos |-> p3 + cat[k].vacancies_after,
         raised |-> raised3]

\* the call: every category.time_offset is reset
fill_slots ==
    /\ \/ pc = "greedy_done" /\ greedy_status = "returned" /\ start_slots' = slots
       \/ pc = "optimal_done" /\ opt_status = "returned" /\ start_slots' = opt_slots
    /\ category_time_offset' = [k \in DOMAIN category_time_offset |->
          IF \E i \in 1..Len(race.categories) : race.categories[i] = k
          THEN None ELSE category_time_offset[k]]
    /\ pc' = "fill"
    /\ fill_course' = 1
    /\ fill_cat' = 0
    /\ fill_pos' = 0
    /\ fill_status' = ""
    /\ UNCHANGED <<affine_vars, disjoin_vars, constraint_vars, race_vars, greedy_vars,
                   optimal_vars, start_time_offset, stats_vars, call_vars>>

current_course == race.courses[fill_course]
current_categories == dict_get(order, current_course)
peek_fails == fill_pos >= Len(slots_of(current_course))

\* _fill_course_slots is called for the next course of race.courses
fill_course_slots ==
    /\ pc = "fill"
    /\ fill_course <= Len(race.courses)
    /\ fill_cat = 0
    /\ order' = order_touch(order, current_course)
    /\ fill_cat' = 1
    /\ fill_pos' = 0
    /\ UNCHANGED <<pc, affine_vars, disjoin_vars, interval, parallel_max, conflicts,
                   race_vars, greedy_vars, optimal_vars, offset_vars, start_slots,
                   fill_course, fill_status, stats_vars, call_vars>>

\* one pass of the loop over the categories of the course
fill_category ==
    /\ pc = "fill"
    /\ fill_course <= Len(race.courses)
    /\ fill_cat >= 1
    /\ fill_cat <= Len(current_categories)
    /\ ~peek_fails
    /\ LET k == current_categories[fill_cat]
           sl == slots_of(current_course)
       IN  \E seq1 \in assign_sequences(k, starts_of(k, TRUE)),
              seq2 \in assign_sequences(k, starts_of(k, FALSE)) :
              LET res == fill_category_result(k, sl, fill_pos, seq1, seq2)
              IN  /\ category_time_offset' =
                        [category_time_offset EXCEPT ![k] = Some(sl[fill_pos + 1])]
                  /\ start_time_offset' = [start_time_offset EXCEPT ![k] = res.offsets]
                  /\ IF res.raised
                     THEN /\ pc' = "filled"
                          /\ fill_status' = "StopIteration"
                          /\ UNCHANGED <<fill_cat, fill_pos>>
                     ELSE /\ fill_cat' = fill_cat + 1
                          /\ fill_pos' = res.pos
                          /\ UNCHANGED <<pc, fill_status>>
    /\ UNCHANGED <<affine_vars, disjoin_vars, constraint_vars, race_vars, greedy_vars,
                   optimal_vars, start_slots, fill_course, stats_vars, call_vars>>

\* the loop over the categories ends, or breaks because slots.peek() finds nothing
fill_course_done ==
    /\ pc = "fill"
    /\ fill_course <= Len(race.courses)
    /\ fill_cat >= 1
    /\ fill_cat > Len(current_categories) \/ peek_fails
    /\ fill_course' = fill_course + 1
    /\ fill_cat' = 0
    /\ fill_pos' = 0
    /\ UNCHANGED <<pc, affine_vars, disjoin_vars, constraint_vars, race_vars, greedy_vars,
                   optimal_vars, offset_vars, start_slots, fill_status, stats_vars, call_vars>>

\* the loop over race.courses ends: fill_slots returns
fill_return ==
    /\ pc = "fill"
    /\ fill_course > Len(race.courses)
    /\ pc' = "filled"
    /\ fill_status' = "returned"
    /\ UNCHANGED <<affine_vars, disjoin_vars, constraint_vars, race_vars, greedy_vars,
                   optimal_vars, offset_vars, start_slots, fill_course, fill_cat,
                   fill_pos, stats_vars, call_vars>>

(***************************************************************************)
(* holper/start.py: Statistics                                             *)
(***************************************************************************)
\* sum((list(category.starts) for category in race.categories), []): the starts as
\* pairs <<category, position in category.starts>>, from position i of the categories on
RECURSIVE race_starts(_)
race_starts(i) ==
    IF i > Len(race.categories) THEN <<>>
    ELSE [j \in 1..Len(cat[race.categories[i]].starts) |-> <<race.categories[i], j>>]
            \o race_starts(i + 1)

\* start.category.time_offset + start.time_offset can be computed: neither is None
has_offsets(ki) ==
    category_time_offset[ki[1]] # None /\ start_time_offset[ki[1]][ki[2]] # None

\* start.category.time_offset + start.time_offset, in minutes
absolute_offset(ki) ==
    Val(category_time_offset[ki[1]]) + Val(start_time_offset[ki[1]][ki[2]])

\* Counter(values): value -> number of positions of the list that hold it
Counter(values) ==
    [v \in {values[i] : i \in 1..Len(values)} |->
        Cardinality({i \in 1..Len(values) : values[i] = v})]

\* Counter(counts.values()) for a Counter counts
Counter_of_values(counts) ==
    [m \in {counts[v] : v \in DOMAIN counts} |->
        Cardinality({v \in DOMAIN counts : counts[v] = m})]

\* the attributes of Statistics(race) for the list of starts; the mean and the variance
\* are kept as exact fractions <<numerator, denominator>>
Statistics_attributes(starts) ==
    LET total == Len(starts)
        slots_of_starts == [i \in 1..total |-> absolute_offset(starts[i])]
        last_slot == Max({slots_of_starts[i] : i \in 1..total})
        counts == Counter(slots_of_starts)
        squares == sum([i \in 1..total |-> counts[slots_of_starts[i]]])
    IN  [entries_total |-> total,
         last_start |-> last_slot,
         entries_per_slot |-> Counter_of_values(counts),
         entries_per_slot_avg |-> <<total, last_slot + 1>>,
         entries_per_slot_var |->
            <<squares * (last_slot + 1) - total * total, (last_slot + 1) * (last_slot + 1)>>]

\* Statistics(race): max() of no starts raises ValueError, an offset that is None
\* raises TypeError
Statistics ==
    /\ pc = "race"
    /\ LET starts == race_starts(1)
       IN  IF starts = <<>>
           THEN stats' = None /\ stats_status' = "ValueError"
           ELSE IF \E i \in 1..Len(starts) : ~has_offsets(starts[i])
           THEN stats' = None /\ stats_status' = "TypeError"
           ELSE stats' = Some(Statistics_attributes(starts)) /\ stats_status' = "returned"
    /\ pc' = "stats_done"
    /\ UNCHANGED <<affine_vars, disjoin_vars, constraint_vars, race_vars, greedy_vars,
                   optimal_vars, offset_vars, fill_vars, call_vars>>

(***************************************************************************)
(* Specification of the AffineSeq operations                               *)
(***************************************************************************)
AffineSeqs ==
    {AffineSeq(a, b, c) : a \in (0 - AffMaxStart)..AffMaxStart,
                          b \in (0 - AffMaxStart)..AffMaxStop,
                          c \in 1..AffMaxStep}

NoDisjoin == lst = <<>> /\ lst_key = <<>> /\ lst_in = <<>>
NoCtor == arg_pattern = None /\ arg_start = 0 /\ arg_stop = 0 /\ arg_step = 1
NoIter == seq_len = None /\ seq_items = <<>> /\ seq_reversed = <<>>
NoAffine == seq_a = None /\ seq_b = None /\ seq_r = None /\ NoCtor /\ NoIter
NoGreedy ==
    /\ time_max = DefaultTimeMax /\ todo = <<>> /\ slots = <<>> /\ parallel = <<>>
    /\ greedy_status = ""
NoOptimal == opt_last_start = None /\ opt_slots = <<>> /\ opt_status = ""
NoFill ==
    /\ start_slots = <<>> /\ fill_course = 0 /\ fill_cat = 0 /\ fill_pos = 0
    /\ fill_status = ""
NoOffsets ==
    /\ category_time_offset = [k \in DOMAIN cat |-> None]
    /\ start_time_offset = [k \in DOMAIN cat |-> [i \in DOMAIN cat[k].starts |-> None]]
NoStats == stats = None /\ stats_status = ""
NoCalls == got_categories = None /\ calls = 0
NoScheduler ==
    /\ NoStats
    /\ NoCalls
    /\ interval = 1 /\ parallel_max = None /\ conflicts = {} /\ order = <<>>
    /\ cat = <<>> /\ race = [categories |-> <<>>, courses |-> <<>>]
    /\ NoOffsets
    /\ NoGreedy
    /\ NoOptimal
    /\ NoFill

InitAffine ==
    /\ pc = "affine"
    /\ seq_a \in AffineSeqs
    /\ seq_b \in AffineSeqs
    /\ seq_r = None
    /\ NoCtor
    /\ NoIter
    /\ NoDisjoin
    /\ NoScheduler

Intersect ==
    /\ pc = "affine"
    /\ seq_r' = Some(AffineSeq_and(seq_a, seq_b))
    /\ pc' = "affine_done"
    /\ UNCHANGED <<seq_a, seq_b, ctor_vars, iter_vars, disjoin_vars, constraint_vars,
                   race_vars, greedy_vars, optimal_vars, offset_vars, fill_vars, stats_vars, call_vars>>

NextAffine == Intersect

SpecAffine == InitAffine /\ [][NextAffine]_vars

(***************************************************************************)
(* Specification of AffineSeq construction, from integers or from a        *)
(* pattern, followed by len, iteration and reversed iteration              *)
(***************************************************************************)
RECURSIVE Strings(_)
Strings(n) ==
    IF n = 0 THEN {<<>>}
    ELSE Strings(n - 1) \cup {Append(s, c) : s \in {t \in Strings(n - 1) : Len(t) = n - 1},
                                              c \in Alphabet}

InitSeq ==
    /\ pc = "construct"
    /\ \/ /\ arg_pattern = None
          /\ arg_start \in (0 - AffMaxStart)..AffMaxStart
          /\ arg_step \in (0 - 1)..AffMaxStep
       \/ /\ arg_pattern \in {Some(s) : s \in Strings(MaxPatternLen)}
          /\ arg_start = 0
          /\ arg_step = 1
    /\ arg_stop \in (0 - AffMaxStart)..AffMaxStop
    /\ seq_a = None /\ seq_b = None /\ seq_r = None
    /\ NoIter
    /\ NoDisjoin
    /\ NoScheduler

\* AffineSeq(start, stop, step)
AffineSeq_init ==
    /\ pc = "construct"
    /\ seq_r' = Some(IF arg_pattern # None
                     THEN AffineSeq_from_str(Val(arg_pattern), arg_stop)
                     ELSE AffineSeq(arg_start, arg_stop, arg_step))
    /\ pc' = "constructed"
    /\ UNCHANGED <<seq_a, seq_b, ctor_vars, iter_vars, disjoin_vars, constraint_vars,
                   race_vars, greedy_vars, optimal_vars, offset_vars, fill_vars, stats_vars, call_vars>>

\* len(seq), list(seq) and list(reversed(seq)) of the instance
Iterate ==
    /\ pc = "constructed"
    /\ IsAffineSeq(Val(seq_r))
    /\ seq_len' = Some(AffineSeq_len(Val(seq_r)))
    /\ seq_items' = to_range(Val(seq_r))
    /\ seq_reversed' = AffineSeq_reversed(Val(seq_r))
    /\ pc' = "iterated"
    /\ UNCHANGED <<seq_a, seq_b, seq_r, ctor_vars, disjoin_vars, constraint_vars,
                   race_vars, greedy_vars, optimal_vars, offset_vars, fill_vars, stats_vars, call_vars>>

NextSeq ==
    \/ AffineSeq_init
    \/ Iterate

SpecSeq == InitSeq /\ [][NextSeq]_vars

(***************************************************************************)
(* Specification of disjoin                                                *)
(***************************************************************************)
InitDisjoin ==
    /\ pc = "disjoin"
    /\ \E n \in 0..MaxLen :
         /\ lst = [k \in 1..n |-> k]
         /\ lst_key \in [1..n -> 1..MaxKeys]
    /\ lst_in = lst
    /\ NoAffine
    /\ NoScheduler

Disjoin ==
    /\ pc = "disjoin"
    /\ lst' = disjoin(lst, lst_key)
    /\ pc' = "disjoin_done"
    /\ UNCHANGED <<affine_vars, lst_key, lst_in, constraint_vars, race_vars, greedy_vars,
                   optimal_vars, offset_vars, fill_vars, stats_vars, call_vars>>

NextDisjoin == Disjoin

SpecDisjoin == InitDisjoin /\ [][NextDisjoin]_vars

(***************************************************************************)
(* Specification of the greedy allocator: any interval, cap, conflict      *)
(* groups and slot counts; every course has one category whose starts      *)
(* make up its slot count.                                                 *)
(***************************************************************************)
plain_start == [competitive |-> TRUE, requests |-> <<>>, organisation |-> 1]

Pairs(n) == {{a, b} : a \in 1..n, b \in 1..n} \ {{a} : a \in 1..n}

InitAlloc(n, maxcount, maxgroups) ==
    /\ pc = "allocate"
    /\ NoStats
    /\ NoCalls
    /\ NoAffine
    /\ NoDisjoin
    /\ interval \in 1..MaxInterval
    /\ parallel_max \in {None} \cup {Some(p) : p \in 0..MaxParallel}
    /\ conflicts \in {g \in SUBSET Pairs(n) : Cardinality(g) <= maxgroups}
    /\ order = [c \in 1..n |-> <<c, <<c>>>>]
    /\ \E counts \in [1..n -> 0..maxcount] :
          cat = [c \in 1..n |->
                   [course |-> c,
                    starts |-> [i \in 1..counts[c] |-> plain_start],
                    vacancies_before |-> 0,
                    vacancies_after |-> 0]]
    /\ race = [categories |-> [c \in 1..n |-> c], courses |-> [c \in 1..n |-> c]]
    /\ NoOffsets
    /\ NoGreedy
    /\ NoOptimal
    /\ NoFill

InitGreedy == InitAlloc(NumCourses, MaxCount, MaxGroups)

NextGreedy ==
    \/ generate_slots_greedily
    \/ greedy_course
    \/ greedy_no_free_slots

SpecGreedy == InitGreedy /\ [][NextGreedy]_vars

(***************************************************************************)
(* Specification of both allocators on the same constraints                *)
(***************************************************************************)
InitOptimal == InitAlloc(OptNumCourses, OptMaxCount, OptNumCourses)

NextOptimal ==
    \/ generate_slots_greedily
    \/ greedy_course
    \/ greedy_no_free_slots
    \/ optimal_step1
    \/ optimal_infeasible
    \/ optimal_model_invalid
    \/ optimal_step2
    \/ optimal_step2_unknown

SpecOptimal == InitOptimal /\ [][NextOptimal]_vars

(***************************************************************************)
(* The greedy allocator without conflict groups                            *)
(***************************************************************************)
InitGreedyFree == InitAlloc(NumCourses, MaxCount, 0)

SpecGreedyFree == InitGreedyFree /\ [][NextGreedy]_vars

(***************************************************************************)
(* Specification of the allocators on constraints of one or two courses    *)
(* with longer slot counts and intervals: the greedy allocator on up to    *)
(* ScenarioCourses courses, both allocators on a single course             *)
(***************************************************************************)
InitScenario(n) ==
    /\ pc = "allocate"
    /\ NoStats
    /\ NoCalls
    /\ NoAffine
    /\ NoDisjoin
    /\ interval \in 1..ScenarioMaxInterval
    /\ parallel_max \in {None} \cup {Some(p) : p \in 0..MaxParallel}
    /\ conflicts \in SUBSET Pairs(n)
    /\ order = [c \in 1..n |-> <<c, <<c>>>>]
    /\ \E counts \in [1..n -> 0..ScenarioMaxCount] :
          cat = [c \in 1..n |->
                   [course |-> c,
                    starts |-> [i \in 1..counts[c] |-> plain_start],
                    vacancies_before |-> 0,
                    vacancies_after |-> 0]]
    /\ race = [categories |-> [c \in 1..n |-> c], courses |-> [c \in 1..n |-> c]]
    /\ NoOffsets
    /\ NoGreedy
    /\ NoOptimal
    /\ NoFill

InitScenarioGreedy == \E n \in 1..ScenarioCourses : InitScenario(n)

InitSingle == InitScenario(1)

NextSingle ==
    \/ generate_slots_greedily
    \/ greedy_course
    \/ optimal_step1
    \/ optimal_infeasible
    \/ optimal_model_invalid
    \/ optimal_step2
    \/ optimal_step2_unknown

SpecSingle == InitSingle /\ [][NextSingle]_vars

SpecScenarioGreedy == InitScenarioGreedy /\ [][NextGreedy]_vars

(***************************************************************************)
(* Specification of Statistics: a race whose categories and starts have    *)
(* any offsets, or none                                                    *)
(***************************************************************************)
Offsets == {None} \cup {Some(m) : m \in 0..StatsMaxOffset}

InitStats ==
    /\ pc = "race"
    /\ NoAffine
    /\ NoDisjoin
    /\ NoStats
    /\ NoCalls
    /\ interval = 1 /\ parallel_max = None /\ conflicts = {} /\ order = <<>>
    /\ \E counts \in [1..StatsCategories -> 0..StatsMaxStarts] :
          /\ cat = [k \in 1..StatsCategories |->
                      [course |-> k,
                       starts |-> [i \in 1..counts[k] |-> plain_start],
                       vacancies_before |-> 0,
                       vacancies_after |-> 0]]
          /\ start_time_offset \in [1..StatsCategories -> UNION {[1..m -> Offsets] : m \in 0..StatsMaxStarts}]
          /\ \A k \in 1..StatsCategories : Len(start_time_offset[k]) = counts[k]
    /\ category_time_offset \in [1..StatsCategories -> Offsets]
    /\ race = [categories |-> [k \in 1..StatsCategories |-> k],
               courses |-> [k \in 1..StatsCategories |-> k]]
    /\ NoGreedy
    /\ NoOptimal
    /\ NoFill

NextStats == Statistics

SpecStats == InitStats /\ [][NextStats]_vars

(***************************************************************************)
(* Specification of the start list: a race whose categories each belong to *)
(* a course of the race, add_race_courses, the greedy allocator,           *)
(* fill_slots                                                              *)
(***************************************************************************)
Requests == {<<>>, <<EARLY>>, <<LATE>>}

StartsUpTo(n) ==
    UNION {[1..m -> [competitive : BOOLEAN, requests : Requests,
                     organisation : 1..MaxOrganisations]] : m \in 0..n}

InitFill ==
    /\ pc = "constraints"
    /\ NoStats
    /\ NoCalls
    /\ NoAffine
    /\ NoDisjoin
    /\ interval \in 1..MaxInterval
    /\ parallel_max = None
    /\ conflicts \in SUBSET Pairs(FillNumCourses)
    /\ order = <<>>
    /\ cat \in [1..FillNumCategories ->
                  [course : 1..FillNumCourses,
                   starts : StartsUpTo(MaxStarts),
                   vacancies_before : 0..MaxVacancies,
                   vacancies_after : 0..MaxVacancies]]
    /\ sum([k \in 1..FillNumCategories |-> Len(cat[k].starts)]) <= MaxStarts
    /\ race = [categories |-> [k \in 1..FillNumCategories |-> k],
               courses |-> [c \in 1..FillNumCourses |-> c]]
    /\ NoOffsets
    /\ NoGreedy
    /\ NoOptimal
    /\ NoFill

NextFill ==
    \/ add_race_courses
    \/ generate_slots_greedily
    \/ greedy_course
    \/ greedy_no_free_slots
    \/ fill_slots
    \/ fill_course_slots
    \/ fill_category
    \/ fill_course_done
    \/ fill_return

SpecFill == InitFill /\ [][NextFill]_vars

(***************************************************************************)
(* Specification of the StartConstraints methods: any calls, in any order, *)
(* on fresh constraints, add_race_courses at most once                     *)
(***************************************************************************)
\* starts, vacancies_before and vacancies_after of a category
OrderShapes == {<<0, 0, 0>>, <<1, 1, 0>>, <<2, 0, 1>>}

\* the lists of categories handed to set_category_early and set_category_late
CategoryLists ==
    UNION {[1..m -> 1..OrderCategories] : m \in 0..OrderMaxList}

InitOrder ==
    /\ pc = "constraints"
    /\ NoStats
    /\ NoCalls
    /\ NoAffine
    /\ NoDisjoin
    /\ interval = 1 /\ parallel_max = None /\ conflicts = {} /\ order = <<>>
    /\ \E course \in [1..OrderCategories -> 1..(OrderCourses - 1)],
          shape \in [1..OrderCategories -> OrderShapes] :
          cat = [k \in 1..OrderCategories |->
                   [course |-> course[k],
                    starts |-> [i \in 1..shape[k][1] |-> plain_start],
                    vacancies_before |-> shape[k][2],
                    vacancies_after |-> shape[k][3]]]
    /\ race = [categories |-> [k \in 1..OrderCategories |-> k],
               courses |-> [c \in 1..OrderCourses |-> c]]
    /\ NoOffsets
    /\ NoGreedy
    /\ NoOptimal
    /\ NoFill

NextOrder ==
    \/ add_race_courses
    \/ \E course_id \in 1..OrderCourses, categories \in CategoryLists :
          set_category_early(course_id, categories)
    \/ \E course_id \in 1..OrderCourses, categories \in CategoryLists :
          set_category_late(course_id, categories)
    \/ \E course_id \in 1..OrderCourses : get_categories(course_id)

SpecOrder == InitOrder /\ [][NextOrder]_vars

(***************************************************************************)
(* Specification of the start list of one category on one course whose     *)
(* entries come from several organisations                                 *)
(***************************************************************************)
AssignStartsUpTo(n) ==
    UNION {[1..m -> [competitive : {TRUE}, requests : Requests,
                     organisation : 1..AssignOrganisations]] : m \in 0..n}

InitAssign ==
    /\ pc = "constraints"
    /\ NoStats
    /\ NoCalls
    /\ NoAffine
    /\ NoDisjoin
    /\ interval \in 1..MaxInterval
    /\ parallel_max = None
    /\ conflicts = {}
    /\ order = <<>>
    /\ cat \in [1..1 -> [course : {1},
                         starts : AssignStartsUpTo(AssignMaxStarts),
                         vacancies_before : {0},
                         vacancies_after : {0}]]
    /\ race = [categories |-> <<1>>, courses |-> <<1>>]
    /\ NoOffsets
    /\ NoGreedy
    /\ NoOptimal
    /\ NoFill

NextAssign ==
    \/ add_race_courses
    \/ generate_slots_greedily
    \/ greedy_course
    \/ fill_slots
    \/ fill_course_slots
    \/ fill_category
    \/ fill_course_done
    \/ fill_return

SpecAssign == InitAssign /\ [][NextAssign]_vars

(***************************************************************************)
(* Specification of add_race_courses on fresh constraints, for categories  *)
(* whose entries have any requests                                         *)
(***************************************************************************)
SortRequests == {<<>>, <<EARLY>>, <<LATE>>, <<EARLY, LATE>>}

SortStartsUpTo(n) ==
    UNION {[1..m -> [competitive : {TRUE}, requests : SortRequests, organisation : {1}]] :
              m \in 0..n}

InitSort ==
    /\ pc = "constraints"
    /\ NoStats
    /\ NoCalls
    /\ NoAffine
    /\ NoDisjoin
    /\ interval = 1 /\ parallel_max = None /\ conflicts = {} /\ order = <<>>
    /\ cat \in [1..SortCategories ->
                  [course : 1..SortCourses,
                   starts : SortStartsUpTo(SortMaxStarts),
                   vacancies_before : {0},
                   vacancies_after : {0}]]
    /\ race = [categories |-> [k \in 1..SortCategories |-> k],
               courses |-> [c \in 1..SortCourses |-> c]]
    /\ NoOffsets
    /\ NoGreedy
    /\ NoOptimal
    /\ NoFill

NextSort == add_race_courses

SpecSort == InitSort /\ [][NextSort]_vars

(***************************************************************************)
(* The same on races whose starts differ only in being competitive or not, *)
(* with one start more                                                     *)
(***************************************************************************)
MixedStartsUpTo(n) ==
    UNION {[1..m -> [competitive : BOOLEAN, requests : {<<>>}, organisation : {1}]] :
              m \in 0..n}

InitFillMixed ==
    /\ pc = "constraints"
    /\ NoStats
    /\ NoCalls
    /\ NoAffine
    /\ NoDisjoin
    /\ interval \in 1..MaxInterval
    /\ parallel_max = None
    /\ conflicts \in SUBSET Pairs(FillNumCourses)
    /\ order = <<>>
    /\ cat \in [1..FillNumCategories ->
                  [course : 1..FillNumCourses,
                   starts : MixedStartsUpTo(MixedMaxStarts),
                   vacancies_before : 0..MaxVacancies,
                   vacancies_after : 0..MaxVacancies]]
    /\ sum([k \in 1..FillNumCategories |-> Len(cat[k].starts)]) <= MixedMaxStarts
    /\ race = [categories |-> [k \in 1..FillNumCategories |-> k],
               courses |-> [c \in 1..FillNumCourses |-> c]]
    /\ NoOffsets
    /\ NoGreedy
    /\ NoOptimal
    /\ NoFill

SpecFillMixed == InitFillMixed /\ [][NextFill]_vars

\* the number of courses of a schedule that start at slot t
Starters(schedule, t) == Cardinality({c \in DOMAIN schedule : t \in Terms(schedule[c])})
AllSlots(schedule) == UNION {Terms(schedule[c]) : c \in DOMAIN schedule}
GroupsDisjoint(schedule) ==
    \A g \in conflicts : \A c1 \in g, c2 \in g :
        (c1 # c2 /\ c1 \in DOMAIN schedule /\ c2 \in DOMAIN schedule)
            => Terms(schedule[c1]) \cap Terms(schedule[c2]) = {}
WithinCap(schedule) ==
    parallel_max # None =>
        \A t \in AllSlots(schedule) : Starters(schedule, t) <= Val(parallel_max)

(***************************************************************************)
(* C1: whenever generate_slots_greedily returns, two different courses of  *)
(* one conflict group have no slot in common.                              *)
(***************************************************************************)
C1_GreedyGroupsDisjoint == greedy_status = "returned" => GroupsDisjoint(slots)

(***************************************************************************)
(* C2: whenever parallel_max is set and generate_slots_greedily returns,   *)
(* at most parallel_max courses start at any slot.                         *)
(***************************************************************************)
C2_GreedyWithinCap == greedy_status = "returned" => WithinCap(slots)

(***************************************************************************)
(* C3: without conflict groups and with a cap P >= 1, every course gets a  *)
(* sequence of exactly its slot count with step interval, and at most P    *)
(* of the sequences contain any one minute.                                *)
(***************************************************************************)
C3_GreedyFreeCountsAndCap ==
    (/\ greedy_status = "returned"
     /\ conflicts = {}
     /\ parallel_max # None
     /\ Val(parallel_max) >= 1)
        => /\ \A i \in 1..Len(course_slot_counts) :
                LET course_id == course_slot_counts[i][1]
                    count == course_slot_counts[i][2]
                IN  /\ course_id \in DOMAIN slots
                    /\ IsAffineSeq(slots[course_id])
                    /\ AffineSeq_len(slots[course_id]) = count
                    /\ slots[course_id].step = interval
           /\ WithinCap(slots)

\* the cap is reached at some minute, and a course had to start later than minute 0
C3_Witness ==
    /\ greedy_status = "returned"
    /\ conflicts = {}
    /\ parallel_max # None
    /\ Val(parallel_max) = MaxParallel
    /\ \E t \in AllSlots(slots) : Starters(slots, t) = Val(parallel_max)
    /\ \E c \in DOMAIN slots : slots[c].start > 0 /\ AffineSeq_len(slots[c]) > 1
    /\ interval > 1

(***************************************************************************)
(* C4: where the greedy allocator returns a schedule, the optimal one      *)
(* returns one too, and its largest slot is at most the greedy one's       *)
(* (runs whose step 2 ran out of time before an assignment was found are   *)
(* left aside here).                                                       *)
(***************************************************************************)
LastSlot(schedule) == IF AllSlots(schedule) = {} THEN 0 ELSE Max(AllSlots(schedule))

C4_OptimalNoLaterThanGreedy ==
    (/\ greedy_status = "returned"
     /\ opt_status # ""
     /\ ~(opt_status = "SolverError" /\ opt_last_start # None))
        => /\ opt_status = "returned"
           /\ LastSlot(opt_slots) <= LastSlot(slots)

(***************************************************************************)
(* C5: whenever generate_slots_optimal returns, the courses of a conflict  *)
(* group share no slot, and with parallel_max set no minute has more than  *)
(* parallel_max starts.                                                    *)
(***************************************************************************)
C5_OptimalHardConstraints ==
    opt_status = "returned" => GroupsDisjoint(opt_slots) /\ WithinCap(opt_slots)

\* both constraints bind: the two courses conflict, the cap is 1, both have starts
C5_Witness ==
    /\ opt_status = "returned"
    /\ conflicts # {}
    /\ parallel_max = Some(1)
    /\ \A c \in DOMAIN opt_slots : AffineSeq_len(opt_slots[c]) >= 2
    /\ \E c \in DOMAIN opt_slots : opt_slots[c].step > interval

(***************************************************************************)
(* C6: whenever generate_slots_optimal returns, the largest slot of the    *)
(* result is the least last start of any schedule with per-course interval *)
(* in interval..12 and offset >= 0 that keeps the conflict groups disjoint *)
(* and the cap, within the horizon.                                        *)
(***************************************************************************)
\* all schedules that meet the hard constraints, built without the allocator's variable domains
CandidateSeqs(count) ==
    {q \in {AffineSeq(off, off + iv * count, iv) : off \in 0..horizon, iv \in interval..interval_max} :
        \A t \in Terms(q) : t <= horizon}
RECURSIVE Schedules(_)
Schedules(k) ==
    IF k = 0 THEN {<<>>}
    ELSE {sch \in {Append(p, q) : p \in Schedules(k - 1), q \in CandidateSeqs(course_starters[k])} :
             /\ \A g \in conflicts : \A i \in 1..Len(sch), j \in 1..Len(sch) :
                   (i < j /\ course_ids[i] \in g /\ course_ids[j] \in g)
                       => Terms(sch[i]) \cap Terms(sch[j]) = {}
             /\ parallel_max # None =>
                   \A t \in 0..horizon :
                       Cardinality({i \in 1..Len(sch) : t \in Terms(sch[i])}) <= Val(parallel_max)}
LeastLastStart ==
    Min({Max(UNION {Terms(sch[i]) : i \in 1..Len(sch)}) :
            sch \in {x \in Schedules(Len(order)) : \E i \in 1..Len(x) : Terms(x[i]) # {}}})

C6_OptimalLastStartIsLeast ==
    opt_status = "returned" => LastSlot(opt_slots) = LeastLastStart

\* a constrained instance that also has schedules with a later last start
C6_Witness ==
    /\ opt_status = "returned"
    /\ conflicts # {}
    /\ LastSlot(opt_slots) > 0
    /\ \E sol \in solutions : last_start(sol) > LastSlot(opt_slots)
    /\ \A c \in DOMAIN opt_slots : AffineSeq_len(opt_slots[c]) >= 2

(***************************************************************************)
(* C9: when the most frequent key of a list of length n occurs at most     *)
(* ceil(n/2) times, disjoin leaves no two adjacent elements with equal     *)
(* keys (lists of length <= 2 included).                                   *)
(***************************************************************************)
KeyCount(l, key, k) == Cardinality({i \in 1..Len(l) : key[l[i]] = k})
MostFrequent(l, key) ==
    IF Len(l) = 0 THEN 0 ELSE Max({KeyCount(l, key, key[l[i]]) : i \in 1..Len(l)})
NoAdjacentEqual(l, key) == \A i \in 1..(Len(l) - 1) : key[l[i]] # key[l[i + 1]]

C9_DisjoinSeparates ==
    (pc = "disjoin_done" /\ 2 * MostFrequent(lst_in, lst_key) <= Len(lst_in) + 1)
        => NoAdjacentEqual(lst, lst_key)

\* a list that had a collision and whose elements were moved
C9_Witness ==
    /\ pc = "disjoin_done"
    /\ 2 * MostFrequent(lst_in, lst_key) <= Len(lst_in) + 1
    /\ ~NoAdjacentEqual(lst_in, lst_key)
    /\ Len(lst_in) = MaxLen
    /\ lst # lst_in

\* C30: disjoin ends, and the list it leaves is a permutation of the list it was
\* given: the same elements, each as often as before; a list of at most two elements
\* and a list without two neighbours of equal key are left in their order.
C30_DisjoinPermutes ==
    pc = "disjoin_done" =>
        /\ Len(lst) = Len(lst_in)
        /\ \A x \in 1..MaxLen :
              Cardinality({i \in 1..Len(lst) : lst[i] = x})
                 = Cardinality({i \in 1..Len(lst_in) : lst_in[i] = x})
        /\ (Len(lst_in) <= 2 \/ NoAdjacentEqual(lst_in, lst_key)) => lst = lst_in

\* disjoin has moved elements of a list of the greatest length in which some key is too
\* frequent to be separated
C30_Witness ==
    /\ pc = "disjoin_done"
    /\ Len(lst_in) = MaxLen
    /\ 2 * MostFrequent(lst_in, lst_key) > Len(lst_in) + 1
    /\ lst # lst_in

(***************************************************************************)
(* C10: the terms of a & b are exactly the common terms of a and b.        *)
(***************************************************************************)
C10_IntersectIsSetIntersection ==
    pc = "affine_done" =>
        /\ IsAffineSeq(Val(seq_r))
        /\ Terms(Val(seq_r)) = Terms(seq_a) \cap Terms(seq_b)

\* two sequences with different starts and steps that share several terms
C10_Witness ==
    /\ pc = "affine_done"
    /\ seq_a.start # seq_b.start
    /\ seq_a.step # seq_b.step
    /\ seq_a.step # 1
    /\ seq_b.step # 1
    /\ Cardinality(Terms(Val(seq_r))) >= 1
    /\ Val(seq_r).start > seq_a.start
    /\ Val(seq_r).start > seq_b.start

(***************************************************************************)
(* Properties of StartConstraints                                          *)
(***************************************************************************)
\* the number of positions of a list that hold x
occurrences(l, x) == Cardinality({i \in 1..Len(l) : l[i] = x})

\* the slots a category asks for: its starts and its vacancies
CategorySlots(k) == Len(cat[k].starts) + cat[k].vacancies_before + cat[k].vacancies_after

\* (number of categories - 1) + the sum of the categories' slots, for a list of categories
SlotCount(categories) ==
    Len(categories) - 1
        + sum([k \in 1..OrderCategories |-> occurrences(categories, k) * CategorySlots(k)])

\* C23: after every sequence of add_race_courses, set_category_early and
\* set_category_late calls, course_slot_counts has an item for each course id of order,
\* in order, whose count is (number of its categories - 1) + the sum over its
\* categories of (starts + vacancies_before + vacancies_after), and no count is negative.
C23_SlotCounts ==
    pc \in {"constraints", "allocate"} =>
        /\ Len(course_slot_counts) = Len(order)
        /\ \A i \in 1..Len(order) :
              /\ course_slot_counts[i][1] = order[i][1]
              /\ course_slot_counts[i][2] = SlotCount(order[i][2])
              /\ course_slot_counts[i][2] >= 0

\* the same without the sign of the count
C23_SlotCountsFormula ==
    pc \in {"constraints", "allocate"} =>
        /\ Len(course_slot_counts) = Len(order)
        /\ \A i \in 1..Len(order) :
              /\ course_slot_counts[i][1] = order[i][1]
              /\ course_slot_counts[i][2] = SlotCount(order[i][2])

\* the requests of a type among all requests of the entries of a category
RequestsOfType(k, type) ==
    Cardinality({ir \in (1..SortMaxStarts) \X (1..2) :
                    /\ ir[1] <= Len(cat[k].starts)
                    /\ ir[2] <= Len(cat[k].starts[ir[1]].requests)
                    /\ cat[k].starts[ir[1]].requests[ir[2]] = type})

NetLate(k) == RequestsOfType(k, LATE) - RequestsOfType(k, EARLY)

\* C24: after add_race_courses on fresh constraints every category of the race is
\* exactly once in order, in the list of its first course; in each list a category
\* never comes before one of smaller (LATE_START - EARLY_START), nor, at equal value,
\* before one with more EARLY_START requests.
C24_AddRaceCoursesOrder ==
    pc = "allocate" =>
        /\ \A k \in DOMAIN cat :
              /\ dict_has(order, cat[k].course)
              /\ \A d \in 1..Len(order) :
                    occurrences(order[d][2], k) = IF order[d][1] = cat[k].course THEN 1 ELSE 0
        /\ \A d \in 1..Len(order), e \in 1..Len(order) : d # e => order[d][1] # order[e][1]
        /\ \A d \in 1..Len(order) :
              \A p \in 1..Len(order[d][2]), q \in 1..Len(order[d][2]) :
                 p < q =>
                    LET k1 == order[d][2][p]
                        k2 == order[d][2][q]
                    IN  /\ NetLate(k1) <= NetLate(k2)
                        /\ NetLate(k1) = NetLate(k2) =>
                              RequestsOfType(k1, EARLY) >= RequestsOfType(k2, EARLY)

\* add_race_courses has put three categories on one course in another order than the
\* race has them, two of them with the same (LATE_START - EARLY_START) and different
\* numbers of EARLY_START requests
C24_Witness ==
    /\ pc = "allocate"
    /\ \E d \in 1..Len(order) :
          /\ Len(order[d][2]) = 3
          /\ order[d][2] # <<1, 2, 3>>
          /\ \E p \in 1..2 :
                /\ NetLate(order[d][2][p]) = NetLate(order[d][2][p + 1])
                /\ RequestsOfType(order[d][2][p], EARLY)
                      > RequestsOfType(order[d][2][p + 1], EARLY)

\* the list of a course in a dict, empty when the course is not a key
ListOf(d, course_id) == IF dict_has(d, course_id) THEN dict_get(d, course_id) ELSE <<>>

\* a list without the members of another, the rest in its order
Removed(l, categories) == SelectSeq(l, LAMBDA x : x \notin members(categories))

\* the lists of all courses but one are the same in order and order'
OthersUnchanged(course_id) ==
    /\ \A d \in 1..Len(order) : order[d][1] # course_id => order'[d] = order[d]
    /\ Len(order') = Len(order) + (IF dict_has(order, course_id) THEN 0 ELSE 1)

\* the new list of the course is a permutation of the previous one
Permuted(course_id) ==
    \A x \in 1..OrderCategories :
       occurrences(ListOf(order', course_id), x) = occurrences(ListOf(order, course_id), x)

\* the categories are a duplicate-free part of the previous list
DuplicateFreeSubset(course_id, categories) ==
    /\ \A x \in members(categories) : occurrences(categories, x) = 1
    /\ members(categories) \subseteq members(ListOf(order, course_id))

\* no member of the categories is twice in the previous list
OnceInPrevious(course_id, categories) ==
    \A x \in members(categories) : occurrences(ListOf(order, course_id), x) = 1

\* what set_category_early and set_category_late do to order apart from permuting
EarlyLateEffect(course_id, categories) ==
    /\ set_category_early(course_id, categories) =>
          /\ ListOf(order', course_id)
                = categories \o Removed(ListOf(order, course_id), categories)
          /\ OthersUnchanged(course_id)
    /\ set_category_late(course_id, categories) =>
          /\ ListOf(order', course_id)
                = Removed(ListOf(order, course_id), categories) \o categories
          /\ OthersUnchanged(course_id)

\* C25 as stated: set_category_early(course, cats) makes the course's list cats
\* followed by the previous list without the members of cats, set_category_late makes
\* it the previous list without the members of cats followed by cats; the rest keeps
\* its order, the lists of the other courses do not change, and for a duplicate-free
\* cats out of the previous list the new list is a permutation of the previous one.
C25_SetCategoryEarlyLate_AsStated ==
    [][\A course_id \in 1..OrderCourses, categories \in CategoryLists :
          /\ EarlyLateEffect(course_id, categories)
          /\ (/\ set_category_early(course_id, categories)
                    \/ set_category_late(course_id, categories)
              /\ DuplicateFreeSubset(course_id, categories))
                => Permuted(course_id)]_vars

\* C25, amended: the same, the new list being a permutation of the previous one for a
\* duplicate-free cats out of the previous list when the previous list has no member
\* of cats twice.
C25_SetCategoryEarlyLate ==
    [][\A course_id \in 1..OrderCourses, categories \in CategoryLists :
          /\ EarlyLateEffect(course_id, categories)
          /\ (/\ set_category_early(course_id, categories)
                    \/ set_category_late(course_id, categories)
              /\ DuplicateFreeSubset(course_id, categories)
              /\ OnceInPrevious(course_id, categories))
                => Permuted(course_id)]_vars

\* after add_race_courses, one call has reversed the two categories of a course
C25_Witness ==
    /\ pc = "allocate"
    /\ calls = 1
    /\ got_categories = None
    /\ cat[1].course = cat[2].course
    /\ ListOf(order, cat[1].course) = <<2, 1>>

\* C26: get_categories(course) returns the list of the course, an empty list for a
\* course that is not a key of order, and leaves order and course_slot_counts as they
\* were.
C26_GetCategoriesReadsOnly ==
    [][\A course_id \in 1..OrderCourses :
          get_categories(course_id) =>
             /\ got_categories' = Some(ListOf(order, course_id))
             /\ order' = order
             /\ course_slot_counts' = course_slot_counts]_vars

\* the part of C26 about the value get_categories returns
C26_GetCategoriesValue ==
    [][\A course_id \in 1..OrderCourses :
          get_categories(course_id) => got_categories' = Some(ListOf(order, course_id))]_vars

\* the part of C26 about fill_slots: no step of it changes order
C26_FillKeepsOrder ==
    [][(fill_slots \/ fill_course_slots \/ fill_category \/ fill_course_done \/ fill_return)
          => order' = order /\ course_slot_counts' = course_slot_counts]_vars

(***************************************************************************)
(* Properties of the outcome of generate_slots_greedily                    *)
(***************************************************************************)
\* the courses already scheduled that start at minute t
CoursesAt(t) == {c \in DOMAIN slots : t \in Terms(slots[c])}

\* minute t passes the capacity and the conflict check for the course
PassesChecks(course_id, t) ==
    /\ ~(/\ parallel_max # None
         /\ Val(parallel_max) # 0
         /\ Cardinality(CoursesAt(t)) >= Val(parallel_max))
    /\ \A course_group \in conflicts :
          course_id \in course_group => CoursesAt(t) \cap course_group = {}

\* no index in [0, time_max) passes the checks for the course
NoFreeIndex(course_id) == \A t \in 0..(time_max - 1) : ~PassesChecks(course_id, t)

CourseIds == {course_slot_counts[i][1] : i \in 1..Len(course_slot_counts)}

\* C18: generate_slots_greedily fails with KeyError, and returns nothing, exactly when
\* it comes to a course for which no first-slot index in [0, time_max) passes the
\* capacity and conflict checks; when every course finds such an index it returns a
\* sequence for every course of course_slot_counts, each starting inside [0, time_max).
C18_GreedyFailsOrReturnsAll ==
    /\ pc = "greedily" => greedy_status = "" /\ todo # <<>>
    /\ pc = "greedy_done" =>
          /\ greedy_status \in {"KeyError", "returned"}
          /\ greedy_status = "KeyError" <=> (todo # <<>> /\ NoFreeIndex(Head(todo)[1]))
          /\ greedy_status = "returned" <=> todo = <<>>
          /\ greedy_status = "returned" => DOMAIN slots = CourseIds
    /\ pc \in {"greedily", "greedy_done"} =>
          \A c \in DOMAIN slots : slots[c].start \in 0..(time_max - 1)

\* the call fails at a course after other courses have been given their sequences
C18_Witness ==
    /\ pc = "greedy_done"
    /\ greedy_status = "KeyError"
    /\ slots # <<>>
    /\ NoFreeIndex(Head(todo)[1])

\* C21: whenever generate_slots_greedily has returned, every slot of every sequence it
\* returned is before time_max.
C21_GreedyBeforeTimeMax ==
    greedy_status = "returned" =>
        \A c \in DOMAIN slots : \A t \in Terms(slots[c]) : t < time_max

(***************************************************************************)
(* Properties of AffineSeq construction and iteration                      *)
(***************************************************************************)
\* the k >= 0 with start + k * step < stop
TermIndices(q) == {k \in 0..(AffMaxStop + AffMaxStart) : q.start + k * q.step < q.stop}

\* C11: for the instance built from start, stop and step >= 1, len is the number of
\* k >= 0 with start + k * step < stop; the item at index i is start + i * step;
\* iteration yields exactly these terms in ascending order and reversed iteration the
\* same terms in descending order; the sequence is empty iff start >= stop.
C11_LenIndexIteration ==
    pc = "iterated" =>
        LET q == Val(seq_r)
            n == Val(seq_len)
        IN  /\ q.step >= 1
            /\ n = Cardinality(TermIndices(q))
            /\ Len(seq_items) = n
            /\ \A i \in 0..(n - 1) :
                  /\ seq_items[i + 1] = q.start + i * q.step
                  /\ AffineSeq_getitem(q, i) = q.start + i * q.step
            /\ {seq_items[i] : i \in 1..n} = {q.start + k * q.step : k \in TermIndices(q)}
            /\ \A i \in 1..n, j \in 1..n : i < j => seq_items[i] < seq_items[j]
            /\ Len(seq_reversed) = n
            /\ \A i \in 1..n : seq_reversed[i] = seq_items[n + 1 - i]
            /\ (n = 0) <=> (q.start >= q.stop)

\* a sequence from a negative start with three terms or more whose stop is not a term
C11_Witness ==
    /\ pc = "iterated"
    /\ arg_pattern = None
    /\ Val(seq_r).start < 0
    /\ Val(seq_r).step >= 2
    /\ Val(seq_len) >= 3
    /\ (Val(seq_r).stop - Val(seq_r).start) % Val(seq_r).step # 0
    /\ seq_reversed[1] = seq_items[Val(seq_len)]

\* a pattern is exactly of the form Xn or Xn+Y, X a run of digits that may be empty and
\* Y a run of digits that is not
WellFormed(s) ==
    \E run \in 0..Len(s) :
        /\ run + 1 <= Len(s)
        /\ \A j \in 1..run : s[j] \in Digits
        /\ s[run + 1] = "n"
        /\ \/ Len(s) = run + 1
           \/ /\ Len(s) >= run + 3
              /\ s[run + 2] = "+"
              /\ \A j \in (run + 3)..Len(s) : s[j] \in Digits

\* the digits before the n are all 0, and there is one at least: the step is 0
ZeroStep(s) ==
    \E run \in 1..Len(s) :
        /\ run + 1 <= Len(s)
        /\ \A j \in 1..run : s[j] = "0"
        /\ s[run + 1] = "n"

\* C12: the construction raises, and gives no instance, whenever the step is below 1
\* or the pattern is not exactly of the form Xn or Xn+Y; patterns with further
\* characters after such a form, and the pattern 0n, are rejected.
C12_ConstructionRejects ==
    pc \in {"constructed", "iterated"} =>
        /\ (arg_pattern = None /\ arg_step < 1) => ~IsAffineSeq(Val(seq_r))
        /\ (arg_pattern # None /\ ~WellFormed(Val(arg_pattern))) => ~IsAffineSeq(Val(seq_r))
        /\ (arg_pattern # None /\ ZeroStep(Val(arg_pattern))) => ~IsAffineSeq(Val(seq_r))

(***************************************************************************)
(* Scenario A: two courses of one conflict group, 5 and 3 slots,           *)
(* interval 2, parallel_max 1                                              *)
(***************************************************************************)
ScenarioA ==
    /\ interval = 2
    /\ parallel_max = Some(1)
    /\ conflicts = {{1, 2}}
    /\ course_slot_counts = <<<<1, 5>>, <<2, 3>>>>

\* C13 as stated: in scenario A the greedy allocator allocates A first and returns
\* A = [0,2,4,6,8] and B = [10,12,14], two disjoint slot sets.
C13_ScenarioA_AsStated ==
    (ScenarioA /\ pc = "greedy_done") =>
        /\ greedy_status = "returned"
        /\ to_range(slots[1]) = <<0, 2, 4, 6, 8>>
        /\ to_range(slots[2]) = <<10, 12, 14>>
        /\ Terms(slots[1]) \cap Terms(slots[2]) = {}

\* C13: in scenario A the greedy allocator allocates A first and returns
\* A = [0,2,4,6,8] and B = [1,3,5], two disjoint slot sets: B starts at the first
\* minute at which A has no start.
C13_ScenarioA ==
    /\ (ScenarioA /\ pc = "greedily" /\ slots = <<>>) => todo = <<<<1, 5>>, <<2, 3>>>>
    /\ (ScenarioA /\ pc = "greedy_done") =>
          /\ greedy_status = "returned"
          /\ to_range(slots[1]) = <<0, 2, 4, 6, 8>>
          /\ to_range(slots[2]) = <<1, 3, 5>>
          /\ Terms(slots[1]) \cap Terms(slots[2]) = {}

\* scenario A has been allocated with the default time_max
C13_Witness ==
    /\ ScenarioA
    /\ pc = "greedy_done"
    /\ greedy_status = "returned"
    /\ time_max = DefaultTimeMax
    /\ DOMAIN slots = {1, 2}

(***************************************************************************)
(* Scenario B: a single course of 4 slots, interval 3, no cap              *)
(***************************************************************************)
ScenarioB ==
    /\ interval = 3
    /\ parallel_max = None
    /\ course_slot_counts = <<<<1, 4>>>>

\* C14: in scenario B the greedy allocator returns AffineSeq(0, 12, 3) = [0,3,6,9]
\* for the course.
C14_ScenarioB_Greedy ==
    (ScenarioB /\ pc = "greedy_done") =>
        /\ greedy_status = "returned"
        /\ DOMAIN slots = {1}
        /\ slots[1] = AffineSeq(0, 12, 3)
        /\ to_range(slots[1]) = <<0, 3, 6, 9>>

\* scenario B has been allocated greedily
C14_Witness ==
    /\ ScenarioB
    /\ pc = "greedy_done"
    /\ greedy_status = "returned"
    /\ 1 \in DOMAIN slots
    /\ AffineSeq_len(slots[1]) = 4

\* C15: in scenario B the optimal allocator returns, without raising, the sequence
\* AffineSeq(0, 12, 3) = [0,3,6,9]; and for any single course the domains of the
\* interval and the offset leave room for the schedule that starts at 0 with
\* interval = constraints.interval.
C15_ScenarioB_Optimal ==
    /\ (ScenarioB /\ pc = "optimal_done") =>
          /\ opt_status = "returned"
          /\ opt_slots = [c \in {1} |-> AffineSeq(0, 12, 3)]
    /\ (Len(order) = 1 /\ course_starters[1] >= 1) =>
          <<interval, 0>> \in course_options(course_starters[1])

(***************************************************************************)
(* C17: errors of the optimal allocator                                    *)
(***************************************************************************)
\* C17: when generate_slots_optimal is over, either it has returned a schedule that
\* satisfies the conflict groups and the cap, or a solve has answered INFEASIBLE and
\* InfeasibleError was raised; a step 2 that ends without the answer INFEASIBLE,
\* with or without an assignment found in time, returns a schedule.
C17_OptimalRaisesOnlyInfeasible ==
    pc = "optimal_done" =>
        \/ /\ opt_status = "returned"
           /\ GroupsDisjoint(opt_slots)
           /\ WithinCap(opt_slots)
        \/ /\ opt_status = "InfeasibleError"
           /\ solutions = {}

(***************************************************************************)
(* Properties of Statistics                                                *)
(***************************************************************************)
\* every Start and every Category of the race has a time_offset
Filled ==
    /\ \A k \in DOMAIN cat : category_time_offset[k] # None
    /\ \A ki \in (DOMAIN cat) \X (1..StatsMaxStarts) :
          ki[2] <= Len(cat[ki[1]].starts) => start_time_offset[ki[1]][ki[2]] # None

StatsStarts ==
    {ki \in (DOMAIN cat) \X (1..StatsMaxStarts) : ki[2] <= Len(cat[ki[1]].starts)}

\* the Starts at an absolute slot
StartsAt(t) == {ki \in StatsStarts : absolute_offset(ki) = t}

\* the absolute slots that exactly m Starts share
SlotsShared(m) ==
    {t \in 0..(2 * StatsMaxOffset) : Cardinality(StartsAt(t)) = m}

\* what C16 says of the attributes st of Statistics(race)
StatisticsAsClaimed(st) ==
    /\ st.entries_total = Cardinality(StatsStarts)
    /\ \E ki \in StatsStarts : st.last_start = absolute_offset(ki)
    /\ \A ki \in StatsStarts : absolute_offset(ki) <= st.last_start
    /\ \A m \in 1..(StatsCategories * StatsMaxStarts) :
          IF SlotsShared(m) = {}
          THEN m \notin DOMAIN st.entries_per_slot
          ELSE m \in DOMAIN st.entries_per_slot
                  /\ st.entries_per_slot[m] = Cardinality(SlotsShared(m))
    /\ sum([m \in 1..(StatsCategories * StatsMaxStarts) |->
              IF m \in DOMAIN st.entries_per_slot THEN m * st.entries_per_slot[m] ELSE 0])
          = st.entries_total

\* C16: for a filled race Statistics reports entries_total = the number of Starts,
\* last_start = the largest absolute slot, and entries_per_slot[m] = the number of
\* absolute slots that exactly m Starts share, so that the sum of
\* m * entries_per_slot[m] is entries_total.
C16_StatisticsReports ==
    (pc = "stats_done" /\ Filled) =>
        /\ stats_status = "returned"
        /\ StatisticsAsClaimed(Val(stats))

\* the same for the filled races that have a Start
C16_StatisticsReports_WithStarts ==
    (pc = "stats_done" /\ Filled /\ StatsStarts # {}) =>
        /\ stats_status = "returned"
        /\ StatisticsAsClaimed(Val(stats))

\* scenario C: the absolute slots 0, 0, 0, 3, 3 give entries_total 5, last_start 3 and
\* the histogram {3: 1, 2: 1}
C16_ScenarioC ==
    (/\ pc = "stats_done"
     /\ Filled
     /\ Cardinality(StatsStarts) = 5
     /\ Cardinality(StartsAt(0)) = 3
     /\ Cardinality(StartsAt(3)) = 2)
        => /\ stats_status = "returned"
           /\ Val(stats).entries_total = 5
           /\ Val(stats).last_start = 3
           /\ Val(stats).entries_per_slot = [m \in {2, 3} |-> 1]

(***************************************************************************)
(* Properties of fill_slots                                                *)
(***************************************************************************)
\* the Starts of the race as pairs <<category, position in category.starts>>
AllStarts == {ki \in (DOMAIN cat) \X (1..MaxStarts) : ki[2] <= Len(cat[ki[1]].starts)}

Assigned(ki) == start_time_offset[ki[1]][ki[2]] # None

\* category.time_offset + start.time_offset in minutes
AbsoluteSlot(ki) == Val(category_time_offset[ki[1]]) + Val(start_time_offset[ki[1]][ki[2]])

\* the slots a category uses up when the sequence is long enough: its vacancies, its
\* starts, and one empty slot after each of its two groups that has a start
SlotsUsed(k) ==
    LET comp == Cardinality({i \in 1..Len(cat[k].starts) : cat[k].starts[i].competitive})
        other == Len(cat[k].starts) - comp
    IN  cat[k].vacancies_before + cat[k].vacancies_after
          + (IF comp > 0 THEN comp + 1 ELSE 0) + (IF other > 0 THEN other + 1 ELSE 0)

\* the slots used up by the categories that precede k on its course
UsedBefore(k) ==
    LET categories == dict_get(order, cat[k].course)
        at == CHOOSE p \in 1..Len(categories) : categories[p] = k
    IN  sum([p \in 1..(at - 1) |-> SlotsUsed(categories[p])])

\* C7: once fill_slots is over it has returned normally, and every Start of every
\* Category has a time_offset, as has its Category.
C7_FillAssignsEveryStart ==
    pc = "filled" =>
        /\ fill_status = "returned"
        /\ \A ki \in AllStarts : Assigned(ki) /\ category_time_offset[ki[1]] # None

\* C8: during and after fill_slots, for every Start that has been assigned, the
\* absolute slot category.time_offset + start.time_offset is a term of the slot
\* sequence of the category's course; a category's time_offset is the first slot the
\* categories before it on the course left unconsumed; and no two assigned Starts
\* of one course have the same absolute slot.
C8_FillUsesTermsOnce ==
    pc \in {"fill", "filled"} =>
        /\ \A ki \in AllStarts :
              Assigned(ki) =>
                 /\ category_time_offset[ki[1]] # None
                 /\ cat[ki[1]].course \in DOMAIN start_slots
                 /\ AbsoluteSlot(ki) \in Terms(start_slots[cat[ki[1]].course])
        /\ \A k \in DOMAIN cat :
              category_time_offset[k] # None =>
                 /\ UsedBefore(k) < Len(slots_of(cat[k].course))
                 /\ Val(category_time_offset[k]) = slots_of(cat[k].course)[UsedBefore(k) + 1]
        /\ \A ki \in AllStarts, kj \in AllStarts :
              (/\ ki # kj
               /\ Assigned(ki)
               /\ Assigned(kj)
               /\ cat[ki[1]].course = cat[kj[1]].course)
                  => AbsoluteSlot(ki) # AbsoluteSlot(kj)

\* fill_slots has returned; a category that is not the first of its course and has a
\* vacancy before its starts has all its starts assigned, and another category of the
\* same course has an assigned start as well.
C8_Witness ==
    /\ pc = "filled"
    /\ fill_status = "returned"
    /\ \E k \in DOMAIN cat :
          /\ category_time_offset[k] # None
          /\ UsedBefore(k) > 0
          /\ cat[k].vacancies_before > 0
          /\ Len(cat[k].starts) > 0
          /\ \A i \in 1..Len(cat[k].starts) : Assigned(<<k, i>>)
          /\ \E kj \in AllStarts :
                kj[1] # k /\ cat[kj[1]].course = cat[k].course /\ Assigned(kj)

\* the categories of a course in the order of the constraints
CategoriesOf(course_id) == IF dict_has(order, course_id) THEN dict_get(order, course_id) ELSE <<>>

StartsOfCourse(course_id) == {ki \in AllStarts : cat[ki[1]].course = course_id}

\* the slots the categories of a course use up when the sequence is long enough
SlotsWanted(course_id) ==
    sum([p \in 1..Len(CategoriesOf(course_id)) |-> SlotsUsed(CategoriesOf(course_id)[p])])

\* the slots used up when the last Start of the last category of the course gets its
\* slot: all but that category's vacancies_after and the empty slot after its last group
SlotsToLastStart(course_id) ==
    LET categories == CategoriesOf(course_id)
        last == categories[Len(categories)]
    IN  SlotsWanted(course_id) - cat[last].vacancies_after
          - (IF Len(cat[last].starts) > 0 THEN 1 ELSE 0)

\* the sequence of the course has a slot for every vacancies_before and every Start and
\* runs out in the trailing empty slot or the vacancies_after of the last category
RunsOutInTail(course_id) ==
    /\ CategoriesOf(course_id) # <<>>
    /\ SlotsToLastStart(course_id) <= Len(slots_of(course_id))
    /\ Len(slots_of(course_id)) < SlotsWanted(course_id)

\* C19: when the slot sequence of a course runs out only in the trailing empty slot or
\* the vacancies_after of the last category of the course, fill_slots does not raise
\* in that course, and once it has returned all Starts of the course are assigned.
C19_TailExhaustionTolerated ==
    pc = "filled" =>
        /\ fill_status = "StopIteration" => ~RunsOutInTail(race.courses[fill_course])
        /\ fill_status = "returned" =>
              \A c \in 1..Len(race.courses) :
                 RunsOutInTail(race.courses[c]) =>
                    \A ki \in StartsOfCourse(race.courses[c]) : Assigned(ki)

\* C20: fill_slots never returns normally while a Start of a course that has a slot
\* sequence is left without a time_offset.
C20_FillRaisesWhenSlotsRunOut ==
    (pc = "filled" /\ fill_status = "returned") =>
        \A k \in DOMAIN cat, i \in 1..MixedMaxStarts :
           (i <= Len(cat[k].starts) /\ cat[k].course \in DOMAIN start_slots)
              => Assigned(<<k, i>>)

\* the assigned Starts of a course
AssignedOfCourse(course_id) == {ki \in StartsOfCourse(course_id) : Assigned(ki)}

\* the slots of the course's sequence that no assigned Start of the course has
UnusedSlots(course_id) ==
    Terms(start_slots[course_id])
        \ {AbsoluteSlot(ki) : ki \in AssignedOfCourse(course_id)}

\* the Starts of the races of SpecFillMixed
AllStartsMixed ==
    {ki \in (DOMAIN cat) \X (1..MixedMaxStarts) : ki[2] <= Len(cat[ki[1]].starts)}

\* C22: during and after fill_slots, for two categories c1 before c2 in the order of a
\* course, every assigned Start of c1 has an earlier absolute slot than every assigned
\* Start of c2, a slot of the course's sequence between the two is not used by any
\* Start, and the two are at least twice the step of the sequence apart.
C22_CategoriesApart ==
    pc \in {"fill", "filled"} =>
        \A d \in 1..Len(order) :
           \A p \in 1..Len(order[d][2]), q \in 1..Len(order[d][2]) :
              p < q =>
                 \A ki \in AssignedOfCourse(order[d][1]), kj \in AssignedOfCourse(order[d][1]) :
                    (ki[1] = order[d][2][p] /\ kj[1] = order[d][2][q]) =>
                       /\ AbsoluteSlot(ki) < AbsoluteSlot(kj)
                       /\ \E t \in UnusedSlots(order[d][1]) :
                             AbsoluteSlot(ki) < t /\ t < AbsoluteSlot(kj)
                       /\ AbsoluteSlot(kj) - AbsoluteSlot(ki)
                             >= 2 * start_slots[order[d][1]].step

\* fill_slots has returned and two categories of one course have an assigned Start each
C22_Witness ==
    /\ pc = "filled"
    /\ fill_status = "returned"
    /\ \E ki \in AllStarts, kj \in AllStarts :
          /\ ki[1] # kj[1]
          /\ cat[ki[1]].course = cat[kj[1]].course
          /\ Assigned(ki)
          /\ Assigned(kj)
          /\ start_slots[cat[ki[1]].course].step > 1

\* the assigned Starts of a category that are competitive, or are not
AssignedGroup(k, competitive) ==
    {i \in 1..MixedMaxStarts :
        /\ i <= Len(cat[k].starts)
        /\ cat[k].starts[i].competitive = competitive
        /\ start_time_offset[k][i] # None}

\* C27: during and after fill_slots, within a category every assigned competitive Start
\* has an earlier absolute slot than every assigned non-competitive Start, and exactly
\* one slot of the course's sequence lies between the last competitive and the first
\* non-competitive one, which no Start of the course has.
C27_CompetitiveFirst ==
    pc \in {"fill", "filled"} =>
        \A k \in DOMAIN cat :
           (AssignedGroup(k, TRUE) # {} /\ AssignedGroup(k, FALSE) # {}) =>
              LET last == Max({AbsoluteSlot(<<k, i>>) : i \in AssignedGroup(k, TRUE)})
                  first == Min({AbsoluteSlot(<<k, i>>) : i \in AssignedGroup(k, FALSE)})
              IN  /\ last < first
                  /\ Cardinality({t \in Terms(start_slots[cat[k].course]) :
                                     last < t /\ t < first}) = 1
                  /\ \A ki \in AllStartsMixed :
                        (Assigned(ki) /\ cat[ki[1]].course = cat[k].course)
                           => ~(last < AbsoluteSlot(ki) /\ AbsoluteSlot(ki) < first)

\* fill_slots has returned, and a category with two competitive Starts and one that is
\* not has them all assigned, on a sequence of step 2
C27_Witness ==
    /\ pc = "filled"
    /\ fill_status = "returned"
    /\ \E k \in DOMAIN cat :
          /\ Cardinality(AssignedGroup(k, TRUE)) = 2
          /\ Cardinality(AssignedGroup(k, FALSE)) = 1
          /\ start_slots[cat[k].course].step = 2

\* C28: for every course of order, the slots _fill_course_slots takes when the sequence
\* is long enough (vacancies_before, a slot for each Start, an empty slot after each
\* non-empty group, vacancies_after) are at most course_slot_counts of the course + 1.
C28_ReservedSlotsSuffice ==
    pc # "constraints" =>
        \A i \in 1..Len(order) :
           SlotsWanted(order[i][1]) <= course_slot_counts[i][2] + 1

\* the first EARLY_START or LATE_START request of a Start is of the given type
FirstRequestIs(ki, type) ==
    LET requests == cat[ki[1]].starts[ki[2]].requests
    IN  \E r \in 1..Len(requests) :
           /\ requests[r] = type
           /\ \A q \in 1..(r - 1) : requests[q] \notin {EARLY, LATE}

AllStartsAssign ==
    {ki \in (DOMAIN cat) \X (1..AssignMaxStarts) : ki[2] <= Len(cat[ki[1]].starts)}

\* C29: among the Starts of one group that _assign_entries_randomly has given a slot,
\* none whose first early/late request is LATE_START has an earlier slot than one
\* whose first early/late request is EARLY_START.
C29_EarlyBeforeLate ==
    pc \in {"fill", "filled"} =>
        \A ki \in AllStartsAssign, kj \in AllStartsAssign :
           (/\ ki[1] = kj[1]
            /\ cat[ki[1]].starts[ki[2]].competitive = cat[kj[1]].starts[kj[2]].competitive
            /\ Assigned(ki)
            /\ Assigned(kj)
            /\ FirstRequestIs(ki, EARLY)
            /\ FirstRequestIs(kj, LATE))
               => AbsoluteSlot(ki) < AbsoluteSlot(kj)

\* the same for groups whose Starts are all of one organisation
C29_EarlyBeforeLate_OneOrganisation ==
    (/\ pc \in {"fill", "filled"}
     /\ \A ki \in AllStartsAssign : cat[ki[1]].starts[ki[2]].organisation = 1)
        => \A ki \in AllStartsAssign, kj \in AllStartsAssign :
              (/\ ki[1] = kj[1]
               /\ Assigned(ki)
               /\ Assigned(kj)
               /\ FirstRequestIs(ki, EARLY)
               /\ FirstRequestIs(kj, LATE))
                  => AbsoluteSlot(ki) < AbsoluteSlot(kj)

================================================================
